---- MODULE Spec2Model ----
(***************************************************************************)
(* Gemini node: the per-item pipeline of Gemini.execute for the video and  *)
(* live-photo operations (submit, poll under a deadline, validate the      *)
(* terminal response, download, post-process with ffmpeg, upload to S3),   *)
(* with VideoUtils.removeAudioFromVideo / createLivePhotoVideo and         *)
(* S3Utils.uploadToS3 unfolded step by step (one action per await); the    *)
(* generateVideo request (validateParameters, the payload, the input       *)
(* fetches of each generation mode, createVideoObject); and the voice      *)
(* selection of generateTTS.                                               *)
(*                                                                         *)
(* Time is counted in seconds.  The clock is read by the polling loop      *)
(* only, as Date.now() - startTime, so now and startTime are tracked from  *)
(* the reading of startTime until the loop is left.  The body of a         *)
(* finished operation is drawn where the code first reads it, in Validate, *)
(* and locals are put back to their initial values after their last read.  *)
(***************************************************************************)
EXTENDS Integers, Sequences, FiniteSets, TLC

\* ------------------------------------------------------------- bounds
MaxItems == 2        \* items of one batch
MaxLatency == 1      \* longest time an awaited status refresh takes
MaxPool == 1         \* voices kept of the male and of the female list
MaxSpeakers == 2      \* speakers of one multi-speaker request
MaxFragments == 2     \* fragments of one TTS stream
MaxInvocations == 2   \* transform invocations alive at once in the process
MaxClock == 1         \* last reading of the millisecond clock
MaxRetriesArg == 3    \* largest maxRetries a direct call of uploadToS3 is given

\* -------------------------------------------------- program constants
DefaultPollingInterval == 10   \* additionalOptions.pollingInterval || 10
DefaultMaxWaitTime == 30       \* additionalOptions.maxWaitTime || 30 (minutes)
SecondsPerMinute == 60         \* maxWaitTime * 60 (* 1000 ms)
UploadMaxRetries == 5          \* the maxRetries execute passes to uploadToS3
BackoffUnit == 100             \* Math.pow(2, attempt) * 100 (ms)

\* ------------------------------------------------------------- inputs
Absent == "absent"       \* an undefined / null field
NoUri == ""              \* a sample without video.uri

\* additionalOptions of an item: 0 stands for an unset (falsy) option
TimingOptions ==
  { [pollingInterval |-> 0, maxWaitTime |-> 1],
    [pollingInterval |-> 30, maxWaitTime |-> 1],
    [pollingInterval |-> 45, maxWaitTime |-> 2],
    [pollingInterval |-> 600, maxWaitTime |-> 0] }

VideoItems ==
  [ operation : {"generateVideo"},
    generateAudio : BOOLEAN,
    livePhotoImageUrl : {""},
    livePhotoEndFrameUrl : {""},
    additionalOptions : TimingOptions ]

LivePhotoItems ==
  [ operation : {"generateLivePhoto"},
    generateAudio : {TRUE},
    livePhotoImageUrl : {"", " ", "img"},
    livePhotoEndFrameUrl : {"", "end"},
    additionalOptions : TimingOptions ]

TtsItems ==
  [ operation : {"generateTTS"},
    generateAudio : {TRUE},
    livePhotoImageUrl : {""},
    livePhotoEndFrameUrl : {""},
    additionalOptions : {[pollingInterval |-> 0, maxWaitTime |-> 0]} ]

\* generateImage items: the branch is kept as one step, its parameters unread
ImageItems ==
  [ operation : {"generateImage"},
    generateAudio : {TRUE},
    livePhotoImageUrl : {""},
    livePhotoEndFrameUrl : {""},
    additionalOptions : {[pollingInterval |-> 0, maxWaitTime |-> 0]} ]

Items == VideoItems \cup LivePhotoItems \cup TtsItems \cup ImageItems

\* the options of the operation parameter (noDataExpression: no other value)
Operations == { "generateImage", "generateTTS", "generateVideo", "generateLivePhoto" }

\* the voice lists, cut to their first MaxPool names
maleVoices ==
  SubSeq(<< "Puck", "Charon", "Fenrir", "Orus", "Enceladus", "Iapetus", "Umbriel",
            "Algieba", "Algenib", "Rasalgethi", "Alnilam", "Schedar", "Achird",
            "Zubenelgenubi", "Sadachbia", "Sadaltager" >>, 1, MaxPool)

femaleVoices ==
  SubSeq(<< "Zephyr", "Kore", "Leda", "Aoede", "Callirrhoe", "Autonoe", "Despina",
            "Erinome", "Laomedeia", "Achernar", "Gacrux", "Pulcherrima",
            "Vindemiatrix", "Sulafat" >>, 1, MaxPool)

allVoices == maleVoices \o femaleVoices

\* the voiceName parameter: a randomized pick or a voice by name
VoiceNames ==
  { "__random__", "__random_male__", "__random_female__", "Puck", "Zephyr" }

\* speakerVoices.speakers: the voiceName of each speaker
SpeakerLists ==
  UNION { [1..n -> VoiceNames] : n \in 0..MaxSpeakers }

NoItem ==
  [ operation |-> "none", generateAudio |-> TRUE, livePhotoImageUrl |-> "",
    livePhotoEndFrameUrl |-> "", additionalOptions |-> [pollingInterval |-> 0, maxWaitTime |-> 0] ]

\* the item as it is known once its operation has been read
Started(op) == [NoItem EXCEPT !.operation = op]

\* the generated-samples collection under either shape of the response
\* (kind "absent": undefined; "notArray": a truthy value that is no array;
\* "array": the video.uri of each sample)
Samples(list) == [kind |-> "array", samples |-> list]
AbsentField == [kind |-> Absent, samples |-> <<>>]
NotArray == [kind |-> "notArray", samples |-> <<>>]

SampleShapes ==
  { AbsentField, NotArray, Samples(<<>>), Samples(<<NoUri>>), Samples(<<"v1">>),
    Samples(<<NoUri, "v1">>), Samples(<<"v%2F2", "v1">>), Samples(<<"%">>) }

\* characters the sanitizer looks for: line feed and tab, and escape
\* (U+001B), delete (U+007F) and next line (U+0085), each a piece of its own
ControlPieces == { "\n", "\t", "U+001B", "U+007F", "U+0085" }

\* raiMediaFilteredReasons: the reasons of the provider, each a string
\* given by its pieces
ReasonLists ==
  { <<>>,
    << << "violence" >> >>,
    << << "violence" >>, << "hate", "\t", "speech" >> >>,
    << << "sexual", " ", "content" >>, << "violence" >> >> }

\* error.message of a rejected SDK call
SdkMessages ==
  { <<>>, << "quota", "U+007F", "exceeded" >>,
    << "U+001B", "bad", "\n", "request", "U+0085" >> }

\* videoOperation.response of a finished operation
Responses ==
  [ error : BOOLEAN,
    raiMediaFilteredCount : {0},
    raiMediaFilteredReasons : {<<>>},
    generatedVideos : SampleShapes,
    generatedSamples : SampleShapes ]
  \cup
  [ error : BOOLEAN,
    raiMediaFilteredCount : {1},
    raiMediaFilteredReasons : ReasonLists,
    generatedVideos : SampleShapes,
    generatedSamples : SampleShapes ]

NoResponse == [error |-> FALSE, raiMediaFilteredCount |-> 0,
               raiMediaFilteredReasons |-> <<>>,
               generatedVideos |-> AbsentField, generatedSamples |-> AbsentField]

\* what a rejected upload.done() carries: error.code and error.name
PutErrors ==
  { [code |-> "ENOTFOUND", name |-> "Error"],
    [code |-> "EAI_AGAIN", name |-> "Error"],
    [code |-> Absent, name |-> "TimeoutError"],
    [code |-> "ECONNRESET", name |-> "Error"],
    [code |-> "AccessDenied", name |-> "AccessDenied"] }

NoError == [code |-> Absent, name |-> "none"]

\* strings that are taken apart (URLs, URIs) are sequences of pieces: a
\* piece is one character (" ", "/") or a run of characters that the code
\* never splits
Key == "key"         \* fileName: `${fileNamePrefix}_${ulid()}.${fileExtension}`
Bucket == "bucket"   \* bucketName

\* the s3PublicDomain parameter
PublicDomains ==
  { <<>>, << " " >>, << "https", "://", "cdn.example" >>,
    << "https", "://", "cdn.example", "/" >> }

\* credentials.endpoint: unset, or the URL of an S3-compatible service
Endpoints ==
  { <<>>, << "http", "://", "minio.local" >>, << "http", "://", "minio.local", "/" >> }

\* credentials.region: unset, or a region name
Regions == { "", "eu-west-1" }

\* the s3 credentials and the publicDomain argument of one uploadToS3 call
S3Configs ==
  [ publicDomain : PublicDomains, endpoint : Endpoints,
    forcePathStyle : BOOLEAN, region : Regions ]

\* the host createVideoObject looks for
ProviderHost == "generativelanguage.googleapis.com"

\* pieces made of the characters [a-zA-Z0-9_-] only
IdPieces == { "abc123", "a-b_1", "files", "v1beta", "x", "http", "https" }

\* the inputVideoUri parameter
InputVideoUris ==
  { <<>>, << " " >>,
    << "abc123" >>, << " ", "a-b_1", " " >>,
    << "files", "/", "abc123" >>, << "files", "/" >>,
    << "https", "://", ProviderHost, "/", "v1beta", "/", "files", "/", "abc123" >>,
    << "http", "://", "evil.example", "/", "x" >>,
    << "abc123", " ", "x" >>, << "abc123", "/", "x" >> }

\* the resolution and durationSeconds parameters (parseInt applied)
Resolutions == { "720p", "1080p" }
Durations == { 4, 5, 6, 8 }

\* the generateVideo parameters before they are read
NoParams ==
  [ generationMode |-> "none", videoPrompt |-> "", resolution |-> "720p",
    durationSeconds |-> 8, startFrameUrl |-> "", enableLooping |-> FALSE,
    endFrameUrl |-> "", referenceImages |-> <<>>, styleImageUrl |-> "",
    inputVideoUri |-> <<>> ]

\* the parameters of a generateVideo item, per generation mode
VideoParams ==
  { [NoParams EXCEPT !.generationMode = "textToVideo", !.videoPrompt = vp,
                     !.resolution = r, !.durationSeconds = d]
      : vp \in {"", " ", "p", " p "}, r \in Resolutions, d \in Durations }
  \cup
  { [NoParams EXCEPT !.generationMode = "framesToVideo", !.videoPrompt = vp,
                     !.startFrameUrl = sf, !.enableLooping = lp, !.endFrameUrl = ef]
      : vp \in {"", "p"}, sf \in {"", " ", "img"}, lp \in BOOLEAN, ef \in {"", "end"} }
  \cup
  { [NoParams EXCEPT !.generationMode = "referencesToVideo", !.videoPrompt = vp,
                     !.referenceImages = ri, !.styleImageUrl = st]
      : vp \in {"", "p"},
        ri \in { <<>>, << " " >>, << "ref1" >>, << " ", "ref1" >>, << "ref1", "ref2" >> },
        st \in {"", "style"} }
  \cup
  { [NoParams EXCEPT !.generationMode = "extendVideo", !.videoPrompt = vp,
                     !.inputVideoUri = uri]
      : vp \in {"", "p"}, uri \in InputVideoUris }
  \cup
  { [NoParams EXCEPT !.generationMode = "imageToVideo", !.videoPrompt = "p"] }

\* generateVideoPayload: the fields the provider call receives
NoPayload ==
  [ resolution |-> "", durationSeconds |-> 0, prompt |-> "", image |-> "",
    lastFrame |-> "", referenceImages |-> <<>>, video |-> <<>> ]

NoS3Config ==
  [ publicDomain |-> <<>>, endpoint |-> <<>>, forcePathStyle |-> FALSE, region |-> "" ]

\* the two temp files of a PostProcessor invocation
InputPath == "inputPath"
OutputPath == "outputPath"

\* the transform invocations the process can have alive at once
Invocations == 1..MaxInvocations

Transforms == { "removeAudioFromVideo", "createLivePhotoVideo" }

\* an invocation slot with no call in it
Idle == [pc |-> "idle", transform |-> "none", tempId |-> 0, result |-> 0]

\* join(tmpdir(), `input_${tempId}.mp4`) and `livephoto_video_${tempId}.mp4`
TempInputPath(transform, tempId) ==
  << IF transform = "removeAudioFromVideo" THEN "input_" ELSE "livephoto_video_",
     tempId, ".mp4" >>

\* join(tmpdir(), `output_${tempId}.mp4`) and `livephoto_output_${tempId}.mp4`
TempOutputPath(transform, tempId) ==
  << IF transform = "removeAudioFromVideo" THEN "output_" ELSE "livephoto_output_",
     tempId, ".mp4" >>

\* the paths of tmpdir() the transforms can name
TempPaths ==
  UNION { { TempInputPath(t, id), TempOutputPath(t, id) } : t \in Transforms, id \in 0..MaxClock }

\* the operation object the SDK returns
DoneOperation == [done |-> TRUE, hasResponse |-> FALSE, response |-> NoResponse]
PendingOperation == [done |-> FALSE, hasResponse |-> FALSE, response |-> NoResponse]

FinishedOperations ==
  { [done |-> TRUE, hasResponse |-> TRUE, response |-> r] : r \in Responses }
    \cup { [done |-> TRUE, hasResponse |-> FALSE, response |-> NoResponse] }

VARIABLES
  continueOnFail,   \* this.continueOnFail()
  nItems,           \* items.length
  i,                \* the loop index of execute (1-based here)
  pc,               \* the position of execute inside the current item
  item,             \* the parameters of the current item
  returnData,       \* the result set
  thrown,           \* the error execute rejected with, or NoErr
  error,            \* the error caught by the catch block, or NoErr
  videoOperation,   \* the operation being polled
  now,              \* the clock
  startTime,        \* Date.now() read after submission
  refreshLatency,   \* time the last awaited refresh took
  hist,             \* what the current item has done so far
  videoUri,         \* the decoded URI of the first generated sample
  videoBuffer,      \* the downloaded bytes
  finalBuffer,      \* the bytes handed to uploadToS3
  audioRemovalSuccess, \* result.audioRemoved of removeAudioFromVideo
  created,          \* temp files the running transform has created
  unlinked,         \* temp files the running transform tried to unlink
  stepFailed,       \* the step of the running transform that failed, or "none"
  data,             \* the data argument of the running uploadToS3 call
  attempt,          \* the loop counter of uploadToS3
  lastError,        \* lastError of uploadToS3
  maxRetries,       \* maxRetries of the running uploadToS3 call
  sleeps,           \* backoff sleeps of the running uploadToS3 call
  puts,             \* upload.done() calls of the running uploadToS3 call
  s3Config,         \* the s3 credentials and public domain of the call
  s3Url,            \* the publicUrl uploadToS3 returned
  params,           \* the generateVideo parameters of the current item
  payload,          \* generateVideoPayload
  refQueue,         \* reference images the for..of loop has not visited yet
  speakerVoices,    \* the speakers parameter of a multi-speaker request
  usedVoices,       \* usedVoices of the speaker map
  speakerVoiceConfigs, \* the voice names assigned so far
  delay,            \* the delay of the last backoff sleep, in ms
  fetched,          \* the URLs fetchImageForVideo was called with, in order
  stream,           \* the fragments the TTS stream has delivered
  audioChunks,      \* audioChunks: the converted chunks
  finalAudio,       \* finalAudio: the concatenated chunks
  surfaced,         \* the sanitized message of the last caught error
  clock,            \* Date.now() as the transforms of the process read it
  inv,              \* the transform invocations running in the process
  tmpFiles          \* tmpdir(): per path the invocation whose bytes it holds, 0 if no file

batchVars == << continueOnFail, nItems >>
loopVars == << i, returnData, thrown >>
pollVars == << videoOperation, now, startTime, refreshLatency >>
mediaVars == << videoUri, videoBuffer, finalBuffer, audioRemovalSuccess >>
ppVars == << created, unlinked, stepFailed >>
upVars == << data, attempt, lastError, maxRetries, sleeps, puts, s3Config, s3Url, delay >>
reqVars == << params, payload, refQueue, fetched >>
ttsVars == << speakerVoices, usedVoices, speakerVoiceConfigs, stream, audioChunks, finalAudio >>
tmpVars == << clock, inv, tmpFiles >>

vars == << continueOnFail, nItems, i, pc, item, returnData, thrown, error,
           videoOperation, now, startTime, refreshLatency, hist,
           videoUri, videoBuffer, finalBuffer, audioRemovalSuccess,
           created, unlinked, stepFailed, data, attempt, lastError, maxRetries, sleeps,
           puts, s3Config, s3Url, params, payload, refQueue,
           speakerVoices, usedVoices, speakerVoiceConfigs,
           delay, fetched, stream, audioChunks, finalAudio, surfaced,
           clock, inv, tmpFiles >>

\* ------------------------------------------------------------ helpers
\* (additionalOptions.pollingInterval || 10) * 1000
PollingInterval(it) ==
  IF it.additionalOptions.pollingInterval = 0
    THEN DefaultPollingInterval
    ELSE it.additionalOptions.pollingInterval

\* (additionalOptions.maxWaitTime || 30) * 60 * 1000
MaxWaitTime(it) ==
  ( IF it.additionalOptions.maxWaitTime = 0
      THEN DefaultMaxWaitTime
      ELSE it.additionalOptions.maxWaitTime ) * SecondsPerMinute

\* a timeout test that fires one second late
TimedOutLate(elapsed, maxWaitTime) == elapsed > maxWaitTime + 1

\* a timeout test against twice the wait
TimedOutDouble(elapsed, maxWaitTime) == elapsed > 2 * maxWaitTime

\* the timeout test of the polling loop: Date.now() - startTime > maxWaitTime
TimedOut(elapsed, maxWaitTime) == elapsed > maxWaitTime

\* a falsy-or-truthy test of a response field (an empty array is truthy)
Truthy(x) == x.kind # Absent

\* a selection that passes over an empty or non-array first shape
GeneratedSamplesNonEmptyFirst(r) ==
  IF r.generatedVideos.kind = "array" /\ r.generatedVideos.samples # <<>>
    THEN r.generatedVideos ELSE r.generatedSamples

\* responseAny.generatedVideos || responseAny.generateVideoResponse?.generatedSamples
GeneratedSamples(r) ==
  IF Truthy(r.generatedVideos) THEN r.generatedVideos ELSE r.generatedSamples

\* decodeURIComponent: "malformed" stands for the URIError it throws
DecodeURIComponent(u) ==
  CASE u = "v%2F2" -> "v/2"
    [] u = "%" -> "malformed"
    [] OTHER -> u

\* the checks with the safety filter looked at before the error object
ResponseErrorSafetyFirst(op) ==
  IF ~op.hasResponse THEN "No response from API"
  ELSE IF op.response.raiMediaFilteredCount > 0 THEN "blocked by safety filters"
  ELSE IF op.response.error THEN "provider error"
  ELSE LET gs == GeneratedSamples(op.response) IN
    IF ~Truthy(gs) \/ gs.kind # "array" THEN "No videos were generated"
    ELSE IF Len(gs.samples) = 0 THEN "No videos were generated"
    ELSE IF gs.samples[1] = NoUri THEN "Generated video is missing URI"
    ELSE IF DecodeURIComponent(gs.samples[1]) = "malformed" THEN "URI malformed"
    ELSE "ok"

\* the checks on the terminal response, in the order the code makes them;
\* "ok" when the response yields a usable video URI
ResponseError(op) ==
  IF ~op.hasResponse THEN "No response from API"
  ELSE IF op.response.error THEN "provider error"
  ELSE IF op.response.raiMediaFilteredCount > 0 THEN "blocked by safety filters"
  ELSE LET gs == GeneratedSamples(op.response) IN
    IF ~Truthy(gs) \/ gs.kind # "array" THEN "No videos were generated"
    ELSE IF Len(gs.samples) = 0 THEN "No videos were generated"
    ELSE IF gs.samples[1] = NoUri THEN "Generated video is missing URI"
    ELSE IF DecodeURIComponent(gs.samples[1]) = "malformed" THEN "URI malformed"
    ELSE IF DecodeURIComponent(gs.samples[1]) = "" THEN "Generated video URI is empty"
    ELSE "ok"

\* the URI of the last sample instead of the first
LastVideoUri(op) ==
  LET gs == GeneratedSamples(op.response).samples IN DecodeURIComponent(gs[Len(gs)])

\* the URI the download uses: decodeURIComponent(generatedSamples[0].video.uri)
FirstVideoUri(op) == DecodeURIComponent(GeneratedSamples(op.response).samples[1])

NoBuffer == [kind |-> "none", uri |-> ""]

\* the body of the GET on the video URI, as one Buffer
Downloaded(uri) == [kind |-> "video", uri |-> uri]

\* what ffmpeg writes to outputPath for either transform
StripAudio(buf) == [kind |-> "noaudio", uri |-> buf.uri]
LivePhoto(buf) == [kind |-> "livephoto", uri |-> buf.uri]

\* no transform for any operation
TransformOfNone(it) == "none"

\* audio stripped from every video, whatever generateAudio says
TransformOfStripsAlways(it) ==
  IF it.operation = "generateLivePhoto" THEN "createLivePhotoVideo"
  ELSE "removeAudioFromVideo"

\* the transform the operation applies to the downloaded video, or "none"
TransformOf(it) ==
  IF it.operation = "generateLivePhoto" THEN "createLivePhotoVideo"
  ELSE IF ~it.generateAudio THEN "removeAudioFromVideo"
  ELSE "none"

\* a catch block that throws for both transforms
TransformCatchThrows(transform, buf) ==
  [throws |-> TRUE, buffer |-> NoBuffer, audioRemoved |-> FALSE]

\* a catch block that returns the original buffer for both transforms
TransformCatchKeepsOriginal(transform, buf) ==
  [throws |-> FALSE, buffer |-> buf, audioRemoved |-> FALSE]

\* the catch block of a transform, after its unlinks: removeAudioFromVideo
\* returns the original buffer, createLivePhotoVideo throws
TransformCatch(transform, buf) ==
  IF transform = "removeAudioFromVideo"
    THEN [throws |-> FALSE, buffer |-> buf, audioRemoved |-> FALSE]
    ELSE [throws |-> TRUE, buffer |-> NoBuffer, audioRemoved |-> FALSE]

\* the return of a transform after its cleanup
TransformReturn(transform, buf) ==
  IF transform = "removeAudioFromVideo"
    THEN [throws |-> FALSE, buffer |-> StripAudio(buf), audioRemoved |-> TRUE]
    ELSE [throws |-> FALSE, buffer |-> LivePhoto(buf), audioRemoved |-> FALSE]

\* a classification that also retries connection resets
IsNetworkErrorReset(e) ==
  e.code = "ENOTFOUND" \/ e.code = "EAI_AGAIN" \/ e.code = "ECONNRESET"
    \/ e.name = "TimeoutError"

\* error.code === 'ENOTFOUND' || error.code === 'EAI_AGAIN' || error.name === 'TimeoutError'
IsNetworkError(e) ==
  e.code = "ENOTFOUND" \/ e.code = "EAI_AGAIN" \/ e.name = "TimeoutError"

\* a loop that stops one attempt early
GivesUpEarly(att, retries, e) == att >= retries - 1 \/ ~IsNetworkError(e)

\* a loop that allows one attempt more
GivesUpLate(att, retries, e) == att = retries + 1 \/ ~IsNetworkError(e)

\* a loop that sleeps after every network error
GivesUpAfterSleep(att, retries, e) == ~IsNetworkError(e)

\* attempt === maxRetries || !isNetworkError
GivesUp(att, retries, e) == att = retries \/ ~IsNetworkError(e)

\* an error message: its fixed text, the underlying failure it names, and
\* the number of minutes it states
Err(msg) == [msg |-> msg, cause |-> "", minutes |-> 0, detail |-> <<>>]
NoErr == Err("none")

\* an error whose message goes on with text from outside, given by its pieces
ErrWith(msg, detail) == [Err(msg) EXCEPT !.detail = detail]

\* error.message: the fixed text and what follows it
Message(e) == (IF e.msg = "" THEN <<>> ELSE << e.msg >>) \o e.detail

\* a sanitizer for U+0000-U+001F only
SanitizeC0Only(message) ==
  SelectSeq(message, LAMBDA c : c \notin { "\n", "\t", "U+001B" })

\* error.message.replace(/[\x00-\x1F\x7F-\x9F]/g, '')
Sanitize(message) == SelectSeq(message, LAMBDA c : c \notin ControlPieces)

\* sanitizedMessage
SanitizedMessage(e) ==
  IF Message(e) = <<>> THEN << "Unknown error occurred" >> ELSE Sanitize(Message(e))

\* new Error(sanitizedMessage): the caught error, its detail now the whole
\* sanitized message
Sanitized(e) == [e EXCEPT !.detail = SanitizedMessage(e)]

\* reasons joined in the opposite order
JoinReversed(list, sep) ==
  LET RECURSIVE J(_)
      J(k) == IF k = 0 THEN <<>>
              ELSE IF k = 1 THEN list[1]
              ELSE list[k] \o << sep >> \o J(k - 1)
  IN J(Len(list))

\* list.join(sep) of strings given by their pieces
Join(list, sep) ==
  LET RECURSIVE J(_)
      J(k) == IF k = 0 THEN <<>>
              ELSE IF k = 1 THEN list[1]
              ELSE J(k - 1) \o << sep >> \o list[k]
  IN J(Len(list))

\* `...blocked by safety filters.\nReasons: ${reasons.join('; ')}\n\nPlease try ...`
\* and the message of generateLivePhoto, which ends in a list of advice
SafetyDetail(operation, reasons) ==
  << "\n", "Reasons: " >> \o Join(reasons, "; ")
    \o ( IF operation = "generateLivePhoto"
           THEN << "\n", "\n", "Please try:", "\n", "- Using a different image", "\n",
                   "- Modifying or removing the motion prompt", "\n",
                   "- Using a more general description" >>
           ELSE << "\n", "\n", "Please try modifying your prompt or using different images." >> )

\* `Failed to upload to S3 after ${maxRetries} attempts: ${lastError?.message}`
UploadError(e) ==
  [msg |-> "Failed to upload to S3",
   cause |-> IF e.code # Absent THEN e.code ELSE e.name,
   minutes |-> 0, detail |-> <<>>]

\* a timeout error that always names the default wait
TimeoutErrorDefault(it) ==
  [msg |-> "timed out", cause |-> "", detail |-> <<>>, minutes |-> DefaultMaxWaitTime]

\* `... timed out after ${additionalOptions.maxWaitTime || 30} minutes`
TimeoutError(it) ==
  [msg |-> "timed out", cause |-> "", detail |-> <<>>,
   minutes |-> IF it.additionalOptions.maxWaitTime = 0
                 THEN DefaultMaxWaitTime
                 ELSE it.additionalOptions.maxWaitTime]

\* !s || !s.trim()
Blank(s) == s \in {"", " "}

\* s.trim() of the prompts
Trim(s) == CASE s = " " -> "" [] s = " p " -> "p" [] OTHER -> s

\* s.trim() of a string given by its pieces
TrimPieces(s) ==
  LET idx == { k \in 1..Len(s) : s[k] # " " } IN
    IF idx = {} THEN <<>>
    ELSE SubSeq(s, CHOOSE k \in idx : \A j \in idx : k <= j,
                   CHOOSE k \in idx : \A j \in idx : k >= j)

\* trimmedUri.match(/^[a-zA-Z0-9_-]+$/)
IsFileId(s) == Len(s) > 0 /\ \A k \in 1..Len(s) : s[k] \in IdPieces

\* trimmedUri.startsWith('files/')
StartsWithFiles(s) == Len(s) >= 2 /\ s[1] = "files" /\ s[2] = "/"

\* trimmedUri.includes('generativelanguage.googleapis.com')
IncludesHost(s) == \E k \in 1..Len(s) : s[k] = ProviderHost

\* VideoUtils.createVideoObject
CreateVideoObject(inputVideoUri) ==
  LET trimmedUri == TrimPieces(inputVideoUri) IN
    IF trimmedUri = <<>>
      THEN [throws |-> TRUE, msg |-> "Video URI cannot be empty", uri |-> <<>>]
    ELSE IF ~(IncludesHost(trimmedUri) \/ StartsWithFiles(trimmedUri) \/ IsFileId(trimmedUri))
      THEN [throws |-> TRUE, msg |-> "Invalid video URI format", uri |-> <<>>]
    ELSE IF IsFileId(trimmedUri)
      THEN [throws |-> FALSE, msg |-> "", uri |-> << "files", "/" >> \o trimmedUri]
    ELSE [throws |-> FALSE, msg |-> "", uri |-> trimmedUri]

\* the params object execute hands to validateParameters
ValidatedFields(p) ==
  [ videoPrompt |-> p.videoPrompt,
    startFrameUrl |-> IF p.generationMode = "framesToVideo" THEN p.startFrameUrl ELSE "",
    referenceImages |->
      IF p.generationMode = "referencesToVideo" THEN p.referenceImages ELSE <<>>,
    inputVideoUri |-> IF p.generationMode = "extendVideo" THEN p.inputVideoUri ELSE <<>> ]

\* a validation that tests for the empty string only
ValidateParametersNoTrim(mode, f) ==
  CASE mode = "textToVideo" ->
         IF f.videoPrompt = "" THEN "Video prompt is required" ELSE "ok"
    [] mode = "framesToVideo" ->
         IF f.startFrameUrl = "" THEN "Start frame URL is required" ELSE "ok"
    [] mode = "referencesToVideo" ->
         IF Len(f.referenceImages) = 0
           THEN "At least one reference image is required" ELSE "ok"
    [] mode = "extendVideo" ->
         IF f.inputVideoUri = <<>> THEN "Input video URI is required" ELSE "ok"
    [] OTHER -> "Unknown generation mode"

\* VideoUtils.validateParameters: the message of the error it throws, or "ok"
ValidateParameters(mode, f) ==
  CASE mode = "textToVideo" ->
         IF Blank(f.videoPrompt) THEN "Video prompt is required" ELSE "ok"
    [] mode = "framesToVideo" ->
         IF Blank(f.startFrameUrl) THEN "Start frame URL is required" ELSE "ok"
    [] mode = "referencesToVideo" ->
         IF Len(f.referenceImages) = 0
           THEN "At least one reference image is required" ELSE "ok"
    [] mode = "extendVideo" ->
         IF TrimPieces(f.inputVideoUri) = <<>>
           THEN "Input video URI is required" ELSE "ok"
    [] OTHER -> "Unknown generation mode"

\* finalPrompt: the trimmed prompt, behind the silent-film instruction when
\* audio is disabled
FinalPrompt(videoPrompt, generateAudio) ==
  IF Blank(videoPrompt) THEN ""
  ELSE IF ~generateAudio THEN "[Silent film] " \o Trim(videoPrompt)
  ELSE Trim(videoPrompt)

\* generateVideoPayload as built before the mode-specific part
BasePayload(p, generateAudio) ==
  [NoPayload EXCEPT !.resolution = p.resolution,
                    !.durationSeconds = p.durationSeconds,
                    !.prompt = FinalPrompt(p.videoPrompt, generateAudio)]

\* the live-photo payload: 720p, 8 seconds with an end frame and 4 without
LivePhotoPayload(it) ==
  [NoPayload EXCEPT !.resolution = "720p",
                    !.durationSeconds = IF Blank(it.livePhotoEndFrameUrl) THEN 4 ELSE 8,
                    !.prompt = "default",
                    !.image = it.livePhotoImageUrl,
                    !.lastFrame = IF Blank(it.livePhotoEndFrameUrl) THEN ""
                                  ELSE it.livePhotoEndFrameUrl]

\* !s || !s.trim() of a string given by its pieces
BlankPieces(s) == \A k \in 1..Len(s) : s[k] = " "

\* s.replace(/\/$/, '')
StripTrailingSlash(s) ==
  IF Len(s) > 0 /\ s[Len(s)] = "/" THEN SubSeq(s, 1, Len(s) - 1) ELSE s

\* s.split('://'): the position of the first separator, 0 when there is none
SeparatorAt(s) ==
  IF \E k \in 1..Len(s) : s[k] = "://"
    THEN CHOOSE k \in 1..Len(s) : s[k] = "://" /\ \A j \in 1..(k - 1) : s[j] # "://"
    ELSE 0

\* s.split('://')[0]
SplitFirst(s) == IF SeparatorAt(s) = 0 THEN s ELSE SubSeq(s, 1, SeparatorAt(s) - 1)

\* s.split('://')[1]; undefined, printed "undefined", without a separator
SplitSecond(s) ==
  IF SeparatorAt(s) = 0 THEN << "undefined" >>
  ELSE LET rest == SubSeq(s, SeparatorAt(s) + 1, Len(s)) IN SplitFirst(rest)

\* credentials.region || 'us-east-1'
Region(cfg) == IF cfg.region = "" THEN "us-east-1" ELSE cfg.region

\* the URL with the endpoint looked at before the public domain
PublicUrlEndpointFirst(cfg) ==
  IF Len(cfg.endpoint) > 0
    THEN StripTrailingSlash(cfg.endpoint) \o << "/", Bucket, "/", Key >>
  ELSE IF ~BlankPieces(cfg.publicDomain)
    THEN StripTrailingSlash(cfg.publicDomain) \o << "/", Key >>
  ELSE << "https", "://", Bucket, ".", "s3", ".", Region(cfg), ".", "amazonaws.com", "/", Key >>

\* publicUrl of uploadToS3
PublicUrl(cfg) ==
  IF ~BlankPieces(cfg.publicDomain)
    THEN StripTrailingSlash(cfg.publicDomain) \o << "/", Key >>
  ELSE IF Len(cfg.endpoint) > 0
    THEN LET cleanEndpoint == StripTrailingSlash(cfg.endpoint) IN
      IF cfg.forcePathStyle
        THEN cleanEndpoint \o << "/", Bucket, "/", Key >>
        ELSE SplitFirst(cleanEndpoint) \o << "://", Bucket, "." >>
               \o SplitSecond(cleanEndpoint) \o << "/", Key >>
  ELSE << "https", "://", Bucket, ".", "s3", ".", Region(cfg), ".", "amazonaws.com", "/", Key >>

Range(seq) == { seq[k] : k \in 1..Len(seq) }

\* a pick that does not look at the voices already used
PickFromAny(pool, used) == Range(pool)

\* a pick that falls back to the voices of every category
PickFromFallbackAll(pool, used) ==
  LET available == SelectSeq(pool, LAMBDA v : v \notin used) IN
    IF Len(available) = 0 THEN Range(allVoices) ELSE Range(available)

\* pool[Math.floor(Math.random() * pool.length)] over the voices not yet
\* used, over the whole pool when none is left: the voices it can return
PickFrom(pool, used) ==
  LET available == SelectSeq(pool, LAMBDA v : v \notin used) IN
    IF Len(available) = 0 THEN Range(pool) ELSE Range(available)

\* the voices the speaker map can give a speaker with this voiceName
SpeakerVoice(voiceName, used) ==
  CASE voiceName = "__random__" -> PickFrom(allVoices, used)
    [] voiceName = "__random_male__" -> PickFrom(maleVoices, used)
    [] voiceName = "__random_female__" -> PickFrom(femaleVoices, used)
    [] OTHER -> {voiceName}

\* the voices single mode can give this voiceName
SingleVoice(voiceName) ==
  CASE voiceName = "__random__" -> Range(allVoices)
    [] voiceName = "__random_male__" -> Range(maleVoices)
    [] voiceName = "__random_female__" -> Range(femaleVoices)
    [] OTHER -> {voiceName}

\* a set that already holds every voice of the catalogs
FullUsedVoices == Range(allVoices)

\* const usedVoices = new Set<string>()
NewUsedVoices == {}

\* the fragments generateContentStream can deliver, each by the first part
\* of its first candidate: whether it has inlineData, and the data and
\* mimeType of it ("" when missing)
Fragments ==
  { [inlineData |-> FALSE, data |-> "", mimeType |-> ""],
    [inlineData |-> TRUE, data |-> "", mimeType |-> ""],
    [inlineData |-> TRUE, data |-> "a", mimeType |-> "audio/L16;rate=24000"],
    [inlineData |-> TRUE, data |-> "b", mimeType |-> "audio/L16;rate=24000"] }

\* AudioUtils.convertToWav(rawData, mimeType): the playback-ready chunk of a
\* fragment, a header for the format and the decoded data
ConvertToWav(rawData, mimeType) == << "wav " \o mimeType, rawData >>

\* a chunk put in front of the chunks converted before it
PrependChunk(chunks, wavBuffer) == << wavBuffer >> \o chunks

\* audioChunks.push(wavBuffer)
AppendChunk(chunks, wavBuffer) == Append(chunks, wavBuffer)

\* Buffer.concat(audioChunks)
BufferConcat(chunks) ==
  LET RECURSIVE C(_)
      C(k) == IF k = 0 THEN <<>> ELSE C(k - 1) \o chunks[k]
  IN C(Len(chunks))

\* the finalAudio handed to uploadToS3 or to the binary output
FinalAudio == [kind |-> "audio", uri |-> ""]

\* the locals of one iteration, as they are before the item starts
ClearLocals ==
  /\ item' = NoItem
  /\ videoOperation' = PendingOperation
  /\ now' = 0 /\ startTime' = 0 /\ refreshLatency' = 0
  /\ hist' = {}
  /\ videoUri' = "" /\ videoBuffer' = NoBuffer /\ finalBuffer' = NoBuffer
  /\ audioRemovalSuccess' = FALSE
  /\ created' = {} /\ unlinked' = {} /\ stepFailed' = "none"
  /\ data' = NoBuffer
  /\ attempt' = 0 /\ lastError' = NoError /\ maxRetries' = 0 /\ sleeps' = 0
  /\ puts' = 0 /\ s3Config' = NoS3Config /\ s3Url' = <<>>
  /\ params' = NoParams /\ payload' = NoPayload /\ refQueue' = <<>>
  /\ speakerVoices' = <<>> /\ usedVoices' = {} /\ speakerVoiceConfigs' = <<>>
  /\ delay' = 0 /\ fetched' = <<>>
  /\ stream' = <<>> /\ audioChunks' = <<>> /\ finalAudio' = <<>>

\* throw inside the try block: control passes to the catch block
Raise(msg) == pc' = "catch" /\ error' = msg

Init ==
  /\ continueOnFail \in BOOLEAN
  /\ nItems \in 0..MaxItems
  /\ i = 1
  /\ pc = "loop"
  /\ item = NoItem
  /\ returnData = <<>>
  /\ thrown = NoErr
  /\ error = NoErr
  /\ videoOperation = PendingOperation
  /\ now = 0 /\ startTime = 0 /\ refreshLatency = 0
  /\ hist = {}
  /\ videoUri = "" /\ videoBuffer = NoBuffer /\ finalBuffer = NoBuffer
  /\ audioRemovalSuccess = FALSE
  /\ created = {} /\ unlinked = {} /\ stepFailed = "none"
  /\ data = NoBuffer
  /\ attempt = 0 /\ lastError = NoError /\ maxRetries = 0 /\ sleeps = 0
  /\ puts = 0 /\ s3Config = NoS3Config /\ s3Url = <<>>
  /\ params = NoParams /\ payload = NoPayload /\ refQueue = <<>>
  /\ speakerVoices = <<>> /\ usedVoices = {} /\ speakerVoiceConfigs = <<>>
  /\ delay = 0 /\ fetched = <<>>
  /\ stream = <<>> /\ audioChunks = <<>> /\ finalAudio = <<>>
  /\ surfaced = <<>>
  /\ clock = 0 /\ inv = [p \in Invocations |-> Idle] /\ tmpFiles = [f \in TempPaths |-> 0]

\* every branch starting with its parameter reads
FirstStepNoProbe(op) == "readParams"

\* the first step of an operation's branch
FirstStep(op) == IF op = "generateLivePhoto" THEN "checkFfmpeg" ELSE "readParams"

\* for (let i = 0; i < items.length; i++) { const operation = ... }
BeginItem ==
  /\ pc = "loop" /\ i <= nItems
  /\ \E op \in Operations :
       /\ item' = Started(op)
       /\ pc' = FirstStep(op)
  /\ surfaced' = <<>>
  /\ UNCHANGED << tmpVars, reqVars, ttsVars, batchVars, loopVars, error, pollVars, hist, mediaVars, ppVars, upVars >>

\* return [returnData]
Return ==
  /\ pc = "loop" /\ i > nItems
  /\ pc' = "returned"
  /\ surfaced' = <<>>
  /\ UNCHANGED << tmpVars, reqVars, ttsVars, batchVars, loopVars, item, error, pollVars, hist, mediaVars, ppVars, upVars >>

\* VideoUtils.checkFfmpegAvailable and the test of its result
CheckFfmpeg ==
  /\ pc = "checkFfmpeg"
  /\ \E ffmpegAvailable \in BOOLEAN :
       IF ffmpegAvailable
         THEN /\ hist' = hist \cup {"probe", "ffmpegAvailable"}
              /\ pc' = "readParams" /\ UNCHANGED error
         ELSE /\ hist' = hist \cup {"probe"}
              /\ Raise(Err("ffmpeg is required"))
  /\ UNCHANGED << tmpVars, surfaced, reqVars, ttsVars, batchVars, loopVars, item, pollVars, mediaVars, ppVars, upVars >>

\* generateVideo from validateParameters up to the first await: the
\* validation, the config and prompt, and the branch on the mode
VideoRequest(p, generateAudio) ==
  LET e == ValidateParameters(p.generationMode, ValidatedFields(p))
      base == BasePayload(p, generateAudio)
      v == CreateVideoObject(p.inputVideoUri)
  IN IF e # "ok" THEN Raise(Err(e)) /\ UNCHANGED payload
     ELSE IF p.generationMode = "framesToVideo"
       THEN payload' = base /\ pc' = "videoStartFrame" /\ UNCHANGED error
     ELSE IF p.generationMode = "referencesToVideo"
       THEN payload' = base /\ pc' = "fetchReference" /\ UNCHANGED error
     ELSE IF p.generationMode = "extendVideo"
       THEN IF v.throws
              THEN Raise(Err(v.msg)) /\ UNCHANGED payload
              ELSE /\ payload' = [base EXCEPT !.video = v.uri]
                   /\ pc' = "submit" /\ UNCHANGED error
     ELSE payload' = base /\ pc' = "submit" /\ UNCHANGED error

\* generateTTS: the speech config of the voice mode, up to the voice of
\* the first speaker of a multi-speaker request
VoiceConfig ==
  /\ usedVoices' = NewUsedVoices
  /\ UNCHANGED << stream, audioChunks, finalAudio >>
  /\ \/ \E voiceName \in VoiceNames :
          /\ speakerVoiceConfigs' \in { << v >> : v \in SingleVoice(voiceName) }
          /\ speakerVoices' = <<>>
          /\ pc' = "generateTTS"
     \/ \E speakers \in SpeakerLists :
          /\ speakerVoices' = speakers
          /\ speakerVoiceConfigs' = <<>>
          /\ pc' = IF Len(speakers) = 0 THEN "generateTTS" ELSE "pickVoice"

\* getCredentials and the getNodeParameter reads of the operation
ReadParams ==
  /\ pc = "readParams"
  /\ hist' = hist \cup {"credentials"}
  /\ \E it \in Items :
       /\ it.operation = item.operation
       /\ item' = it
       /\ IF it.operation = "generateLivePhoto"
            THEN /\ pc' = "fetchStartFrame"
                 /\ UNCHANGED << error, reqVars, ttsVars >>
            ELSE IF it.operation = "generateTTS"
              THEN VoiceConfig /\ UNCHANGED << error, reqVars >>
            ELSE IF it.operation = "generateImage"
              THEN /\ pc' = "generateImage"
                   /\ UNCHANGED << error, reqVars, ttsVars >>
            ELSE /\ \E p \in VideoParams :
                      /\ params' = p
                      /\ refQueue' = p.referenceImages
                      /\ fetched' = <<>>
                      /\ VideoRequest(p, it.generateAudio)
                 /\ UNCHANGED ttsVars
  /\ UNCHANGED << tmpVars, surfaced, batchVars, loopVars, pollVars, mediaVars, ppVars, upVars >>

\* the generateImage branch after its parameter reads, as one step: a throw
\* of any of its calls (an input image fetch, generateContent, the upload of
\* a generated image), or the result made ready for the push
GenerateImage ==
  /\ pc = "generateImage"
  /\ hist' = hist \cup {"generateContent"}
  /\ \/ Raise(Err("generateImage failed"))
     \/ pc' = "pushResult" /\ UNCHANGED error
  /\ UNCHANGED << tmpVars, surfaced, reqVars, ttsVars, batchVars, loopVars, item, pollVars,
                  mediaVars, ppVars, upVars >>

\* speakerVoices.map((speaker) => ...): the voice of the next speaker
PickVoice ==
  /\ pc = "pickVoice"
  /\ LET speaker == Len(speakerVoiceConfigs) + 1 IN
       /\ \E voiceName \in SpeakerVoice(speakerVoices[speaker], usedVoices) :
            /\ usedVoices' = usedVoices \cup {voiceName}
            /\ speakerVoiceConfigs' = Append(speakerVoiceConfigs, voiceName)
       /\ pc' = IF speaker = Len(speakerVoices) THEN "generateTTS" ELSE "pickVoice"
  /\ UNCHANGED << tmpVars, surfaced, speakerVoices, stream, audioChunks, finalAudio, reqVars,
                  batchVars, loopVars, item, error, pollVars, hist, mediaVars, ppVars, upVars >>

\* await ai.models.generateContentStream({ model, config, contents })
GenerateTTS ==
  /\ pc = "generateTTS"
  /\ hist' = hist \cup {"tts"}
  /\ speakerVoices' = <<>> /\ usedVoices' = {} /\ speakerVoiceConfigs' = <<>>
  /\ \/ Raise(Err("generateContentStream failed"))
     \/ pc' = "streamChunk" /\ UNCHANGED error
  /\ UNCHANGED << tmpVars, surfaced, stream, audioChunks, finalAudio, reqVars, batchVars, loopVars,
                  item, pollVars, mediaVars, ppVars, upVars >>

\* for await (const chunk of response): the next fragment, the end of the
\* stream and Buffer.concat, or a rejection of the stream
StreamChunk ==
  /\ pc = "streamChunk"
  /\ \/ /\ Len(stream) < MaxFragments
        /\ \E chunk \in Fragments :
             /\ stream' = Append(stream, chunk)
             /\ audioChunks' =
                  IF chunk.inlineData
                    THEN AppendChunk(audioChunks, ConvertToWav(chunk.data, chunk.mimeType))
                    ELSE audioChunks
        /\ UNCHANGED << pc, error, finalAudio >>
     \/ /\ finalAudio' = BufferConcat(audioChunks)
        /\ pc' = "ttsOutput"
        /\ UNCHANGED << error, stream, audioChunks >>
     \/ /\ Raise(Err("generateContentStream failed"))
        /\ UNCHANGED << stream, audioChunks, finalAudio >>
  /\ UNCHANGED << tmpVars, surfaced, speakerVoices, usedVoices, speakerVoiceConfigs, reqVars,
                  batchVars, loopVars, item, pollVars, hist, mediaVars, ppVars, upVars >>

\* the choice of the output: upload to S3 or binary data
TtsOutput ==
  /\ pc = "ttsOutput"
  /\ \E uploadToS3 \in BOOLEAN :
       /\ finalBuffer' = FinalAudio
       /\ pc' = IF uploadToS3 THEN "upload" ELSE "pushResult"
  /\ stream' = <<>> /\ audioChunks' = <<>> /\ finalAudio' = <<>>
  /\ UNCHANGED << tmpVars, surfaced, speakerVoices, usedVoices, speakerVoiceConfigs, reqVars,
                  batchVars, loopVars, item, error, pollVars, hist, videoUri, videoBuffer,
                  audioRemovalSuccess, ppVars, upVars >>

\* fetchImageForVideo(url) and what follows its return: the fetch error is
\* thrown, or the payload becomes kept, the payload with the image in it
FetchImage(url, next, kept) ==
  /\ hist' = hist \cup {"fetchInput"}
  /\ fetched' = Append(fetched, url)
  /\ \/ Raise(Err("Failed to fetch image from URL")) /\ UNCHANGED payload
     \/ payload' = kept /\ pc' = next /\ UNCHANGED error

\* generationMode === 'framesToVideo': the start frame
FetchVideoStartFrame ==
  /\ pc = "videoStartFrame"
  /\ FetchImage(params.startFrameUrl, "videoEndFrame",
                [payload EXCEPT !.image = params.startFrameUrl])
  /\ UNCHANGED << tmpVars, surfaced, params, refQueue, ttsVars, batchVars, loopVars, item, pollVars,
                  mediaVars, ppVars, upVars >>

\* the end frame, or the start frame again for looping
FetchVideoEndFrame ==
  /\ pc = "videoEndFrame"
  /\ LET finalEndFrameUrl ==
           IF params.enableLooping THEN params.startFrameUrl ELSE params.endFrameUrl
     IN IF Blank(finalEndFrameUrl)
          THEN pc' = "submit" /\ UNCHANGED << hist, error, payload, fetched >>
          ELSE FetchImage(finalEndFrameUrl, "submit",
                          [payload EXCEPT !.lastFrame = finalEndFrameUrl])
  /\ UNCHANGED << tmpVars, surfaced, params, refQueue, ttsVars, batchVars, loopVars, item, pollVars,
                  mediaVars, ppVars, upVars >>

\* for (const refImg of referenceImagesData): one reference image
FetchReferenceImage ==
  /\ pc = "fetchReference"
  /\ IF refQueue = <<>>
       THEN pc' = "fetchStyle" /\ UNCHANGED << hist, error, payload, refQueue, fetched >>
       ELSE /\ refQueue' = Tail(refQueue)
            /\ IF Blank(Head(refQueue))
                 THEN pc' = "fetchReference" /\ UNCHANGED << hist, error, payload, fetched >>
                 ELSE FetchImage(Head(refQueue), "fetchReference",
                        [payload EXCEPT !.referenceImages =
                          Append(@, [image |-> Head(refQueue), referenceType |-> "ASSET"])])
  /\ UNCHANGED << tmpVars, surfaced, params, ttsVars, batchVars, loopVars, item, pollVars,
                  mediaVars, ppVars, upVars >>

\* the style image, and config.referenceImages when there is any image
FetchStyleImage ==
  /\ pc = "fetchStyle"
  /\ IF Blank(params.styleImageUrl)
       THEN pc' = "submit" /\ UNCHANGED << hist, error, payload, fetched >>
       ELSE FetchImage(params.styleImageUrl, "submit",
              [payload EXCEPT !.referenceImages =
                Append(@, [image |-> params.styleImageUrl, referenceType |-> "STYLE"])])
  /\ UNCHANGED << tmpVars, surfaced, params, refQueue, ttsVars, batchVars, loopVars, item, pollVars,
                  mediaVars, ppVars, upVars >>


\* VideoUtils.fetchImageForVideo(livePhotoImageUrl)
FetchStartFrame ==
  /\ pc = "fetchStartFrame"
  /\ IF Blank(item.livePhotoImageUrl)
       THEN Raise(Err("Image URL cannot be empty")) /\ UNCHANGED << hist, fetched >>
       ELSE /\ hist' = hist \cup {"fetchInput"}
            /\ fetched' = Append(fetched, item.livePhotoImageUrl)
            /\ \E ok \in BOOLEAN :
                 IF ok THEN pc' = "fetchEndFrame" /\ UNCHANGED error
                       ELSE Raise(Err("Failed to fetch image from URL"))
  /\ UNCHANGED << tmpVars, surfaced, params, payload, refQueue, ttsVars, batchVars, loopVars, item,
                  pollVars, mediaVars, ppVars, upVars >>

\* if (livePhotoEndFrameUrl && livePhotoEndFrameUrl.trim()) fetchImageForVideo(...)
FetchEndFrame ==
  /\ pc = "fetchEndFrame"
  /\ IF Blank(item.livePhotoEndFrameUrl)
       THEN /\ pc' = "submit" /\ payload' = LivePhotoPayload(item)
            /\ UNCHANGED << hist, error, fetched >>
       ELSE /\ hist' = hist \cup {"fetchInput"}
            /\ fetched' = Append(fetched, item.livePhotoEndFrameUrl)
            /\ \E ok \in BOOLEAN :
                 IF ok THEN /\ pc' = "submit" /\ payload' = LivePhotoPayload(item)
                            /\ UNCHANGED error
                       ELSE Raise(Err("Failed to fetch image from URL")) /\ UNCHANGED payload
  /\ UNCHANGED << tmpVars, surfaced, params, refQueue, ttsVars, batchVars, loopVars, item, pollVars, mediaVars, ppVars, upVars >>

\* ai.models.generateVideos(payload); const startTime = Date.now()
Submit ==
  /\ pc = "submit"
  /\ hist' = hist \cup {"submit"}
  /\ \/ /\ \E m \in SdkMessages : Raise(ErrWith("", m))
        /\ UNCHANGED pollVars
     \/ /\ videoOperation' \in {PendingOperation, DoneOperation}
        /\ startTime' = now
        /\ pc' = "pollCheck"
        /\ UNCHANGED << now, refreshLatency, error >>
  /\ UNCHANGED << tmpVars, surfaced, reqVars, ttsVars, batchVars, loopVars, item, mediaVars, ppVars, upVars >>

\* a loop head that tests the deadline before it looks at done
PollCheckDeadlineFirst ==
  /\ pc = "pollCheck"
  /\ IF TimedOut(now - startTime, MaxWaitTime(item))
       THEN /\ Raise(TimeoutError(item))
            /\ UNCHANGED << now, startTime, refreshLatency, item >>
       ELSE IF videoOperation.done
         THEN /\ pc' = "validate"
              /\ now' = 0 /\ startTime' = 0 /\ refreshLatency' = 0
              /\ item' = [item EXCEPT !.additionalOptions = NoItem.additionalOptions]
              /\ UNCHANGED error
         ELSE /\ pc' = "sleep"
              /\ UNCHANGED << error, now, startTime, refreshLatency, item >>
  /\ params' = NoParams /\ payload' = NoPayload /\ refQueue' = <<>> /\ fetched' = <<>>
  /\ UNCHANGED << tmpVars, surfaced, ttsVars, batchVars, loopVars, videoOperation, hist, mediaVars, ppVars, upVars >>

\* while (!videoOperation.done) { if (Date.now() - startTime > maxWaitTime) throw ...
PollCheck ==
  /\ pc = "pollCheck"
  /\ IF videoOperation.done
       THEN /\ pc' = "validate"
            /\ now' = 0 /\ startTime' = 0 /\ refreshLatency' = 0
            /\ item' = [item EXCEPT !.additionalOptions = NoItem.additionalOptions]
            /\ UNCHANGED error
       ELSE /\ IF TimedOut(now - startTime, MaxWaitTime(item))
                 THEN Raise(TimeoutError(item))
                 ELSE pc' = "sleep" /\ UNCHANGED error
            /\ UNCHANGED << now, startTime, refreshLatency, item >>
  /\ params' = NoParams /\ payload' = NoPayload /\ refQueue' = <<>> /\ fetched' = <<>>
  /\ UNCHANGED << tmpVars, surfaced, ttsVars, batchVars, loopVars, videoOperation, hist, mediaVars, ppVars, upVars >>

\* a sleep that starts the wait over
SleepResetsStart ==
  /\ pc = "sleep"
  /\ now' = now + PollingInterval(item)
  /\ startTime' = now + PollingInterval(item)
  /\ refreshLatency' = 0
  /\ hist' = hist \cup {"sleep"}
  /\ pc' = "refresh"
  /\ UNCHANGED << tmpVars, surfaced, reqVars, ttsVars, batchVars, loopVars, item, error, videoOperation,
                  mediaVars, ppVars, upVars >>

\* await new Promise((resolve) => setTimeout(resolve, pollingInterval))
Sleep ==
  /\ pc = "sleep"
  /\ now' = now + PollingInterval(item)
  /\ refreshLatency' = 0
  /\ hist' = hist \cup {"sleep"}
  /\ pc' = "refresh"
  /\ UNCHANGED << tmpVars, surfaced, reqVars, ttsVars, batchVars, loopVars, item, error, videoOperation, startTime,
                  mediaVars, ppVars, upVars >>

\* videoOperation = await ai.operations.getVideosOperation({ operation })
Refresh ==
  /\ pc = "refresh"
  /\ hist' = hist \cup {"refresh"}
  /\ \E lat \in 0..MaxLatency :
       /\ now' = now + lat
       /\ refreshLatency' = lat
  /\ \/ Raise(Err("getVideosOperation failed")) /\ UNCHANGED videoOperation
     \/ /\ videoOperation' \in {PendingOperation, DoneOperation}
        /\ pc' = "pollCheck"
        /\ UNCHANGED error
  /\ UNCHANGED << tmpVars, surfaced, reqVars, ttsVars, batchVars, loopVars, item, startTime, mediaVars, ppVars, upVars >>

\* the checks of the terminal response, up to the decoded videoUri
Validate ==
  /\ pc = "validate"
  /\ \E op \in FinishedOperations :
       /\ videoOperation' = op
       /\ LET e == ResponseError(op) IN
            IF e = "blocked by safety filters"
              THEN /\ Raise(ErrWith(e, SafetyDetail(item.operation,
                                                    op.response.raiMediaFilteredReasons)))
                   /\ UNCHANGED << hist, videoUri >>
            ELSE IF e # "ok"
              THEN Raise(Err(e)) /\ UNCHANGED << hist, videoUri >>
              ELSE /\ videoUri' = FirstVideoUri(op)
                   /\ hist' = hist \cup {"validated"}
                   /\ pc' = "download"
                   /\ UNCHANGED error
  /\ UNCHANGED << tmpVars, surfaced, reqVars, ttsVars, batchVars, loopVars, item, now, startTime, refreshLatency,
                  videoBuffer, finalBuffer, audioRemovalSuccess, ppVars, upVars >>

\* this.helpers.httpRequest GET of the video, normalised to a Buffer; then the
\* choice of the transform
Download ==
  /\ pc = "download"
  /\ hist' = hist \cup {"download"}
  /\ videoOperation' = DoneOperation
  /\ \/ Raise(Err("download failed")) /\ UNCHANGED << videoBuffer, finalBuffer >>
     \/ /\ videoBuffer' = Downloaded(videoUri)
        /\ IF TransformOf(item) = "none"
             THEN finalBuffer' = videoBuffer' /\ pc' = "upload"
             ELSE finalBuffer' = finalBuffer /\ pc' = "writeFile"
        /\ UNCHANGED error
  /\ UNCHANGED << tmpVars, surfaced, reqVars, ttsVars, batchVars, loopVars, item, now, startTime, refreshLatency,
                  videoUri, audioRemovalSuccess, ppVars, upVars >>


\* ---------------------------------------------------------------------
\* VideoUtils.removeAudioFromVideo and VideoUtils.createLivePhotoVideo:
\* the same steps over two temp files; they differ in what they return

\* await writeFile(inputPath, videoBuffer)
WriteFile ==
  /\ pc = "writeFile"
  /\ \/ created' = created \cup {InputPath} /\ pc' = "execFfmpeg" /\ UNCHANGED stepFailed
     \/ /\ \E partial \in SUBSET {InputPath} : created' = created \cup partial
        /\ stepFailed' = "writeFile"
        /\ pc' = "catchUnlinkInput"
  /\ UNCHANGED << tmpVars, surfaced, reqVars, ttsVars, batchVars, loopVars, item, error, pollVars, hist, mediaVars,
                  unlinked, upVars >>

\* await execAsync(`ffmpeg -i "${inputPath}" ... "${outputPath}"`, { timeout })
ExecFfmpeg ==
  /\ pc = "execFfmpeg"
  /\ \/ created' = created \cup {OutputPath} /\ pc' = "readFile" /\ UNCHANGED stepFailed
     \/ /\ \E partial \in SUBSET {OutputPath} : created' = created \cup partial
        /\ stepFailed' = "ffmpeg"
        /\ pc' = "catchUnlinkInput"
  /\ UNCHANGED << tmpVars, surfaced, reqVars, ttsVars, batchVars, loopVars, item, error, pollVars, hist, mediaVars,
                  unlinked, upVars >>

\* const processedBuffer = await readFile(outputPath)
ReadFile ==
  /\ pc = "readFile"
  /\ \/ pc' = "unlinkInput" /\ UNCHANGED stepFailed
     \/ stepFailed' = "readFile" /\ pc' = "catchUnlinkInput"
  /\ UNCHANGED << tmpVars, surfaced, reqVars, ttsVars, batchVars, loopVars, item, error, pollVars, hist, mediaVars,
                  created, unlinked, upVars >>

\* the transform has returned r to execute
Returned(r) ==
  IF r.throws
    THEN /\ Raise(Err("Failed to create live photo video"))
         /\ UNCHANGED << finalBuffer, audioRemovalSuccess, hist >>
    ELSE /\ finalBuffer' = r.buffer
         /\ audioRemovalSuccess' = r.audioRemoved
         /\ hist' = hist \cup {"postprocess"}
         /\ pc' = "upload"
         /\ UNCHANGED error

\* try { await unlink(inputPath); await unlink(outputPath); } catch {}: a failing
\* first unlink leaves the try block
UnlinkInput ==
  /\ pc = "unlinkInput"
  /\ unlinked' = unlinked \cup {InputPath}
  /\ \E ok \in BOOLEAN :
       IF ok
         THEN /\ pc' = "unlinkOutput"
              /\ UNCHANGED << error, finalBuffer, audioRemovalSuccess, hist >>
         ELSE Returned(TransformReturn(TransformOf(item), videoBuffer))
  /\ UNCHANGED << tmpVars, surfaced, reqVars, ttsVars, batchVars, loopVars, item, pollVars, videoUri, videoBuffer,
                  created, stepFailed, upVars >>

\* await unlink(outputPath), then return the processed buffer
UnlinkOutput ==
  /\ pc = "unlinkOutput"
  /\ unlinked' = unlinked \cup {OutputPath}
  /\ Returned(TransformReturn(TransformOf(item), videoBuffer))
  /\ UNCHANGED << tmpVars, surfaced, reqVars, ttsVars, batchVars, loopVars, item, pollVars, videoUri, videoBuffer,
                  created, stepFailed, upVars >>

\* catch: await unlink(inputPath).catch(() => {})
CatchUnlinkInput ==
  /\ pc = "catchUnlinkInput"
  /\ unlinked' = unlinked \cup {InputPath}
  /\ pc' = "catchUnlinkOutput"
  /\ UNCHANGED << tmpVars, surfaced, reqVars, ttsVars, batchVars, loopVars, item, error, pollVars, hist, mediaVars,
                  created, stepFailed, upVars >>

\* catch: await unlink(outputPath).catch(() => {}), then the return or throw
CatchUnlinkOutput ==
  /\ pc = "catchUnlinkOutput"
  /\ unlinked' = unlinked \cup {OutputPath}
  /\ Returned(TransformCatch(TransformOf(item), videoBuffer))
  /\ UNCHANGED << tmpVars, surfaced, reqVars, ttsVars, batchVars, loopVars, item, pollVars, videoUri, videoBuffer,
                  created, stepFailed, upVars >>

\* ---------------------------------------------------------------------
\* S3Utils.uploadToS3(this, finalBuffer, 'video/mp4', bucket, prefix, 5, domain)

\* a loop that makes its first attempt whatever maxRetries is
LoopEnteredOnce(att, retries) == att <= retries \/ att = 1

\* the test of the for loop: attempt <= maxRetries
LoopEntered(att, retries) == att <= retries

\* getCredentials('s3'), the client, and the first test of the for loop, for
\* a call with this maxRetries
UploadBegin(retries) ==
  /\ data' = finalBuffer
  /\ maxRetries' = retries
  /\ attempt' = 1
  /\ sleeps' = 0 /\ puts' = 0 /\ delay' = 0
  /\ \/ Raise(Err("S3 credentials are required"))
     \/ IF LoopEntered(1, retries)
          THEN pc' = "put" /\ UNCHANGED error
          ELSE Raise(UploadError(lastError))
  /\ created' = {} /\ unlinked' = {} /\ stepFailed' = "none"
  /\ UNCHANGED << tmpVars, surfaced, reqVars, ttsVars, batchVars, loopVars, item, pollVars, hist, mediaVars,
                  lastError, s3Config, s3Url >>

\* the call execute makes: maxRetries 5
UploadStart ==
  /\ pc = "upload"
  /\ UploadBegin(UploadMaxRetries)

\* await upload.done(), and on a rejection the catch block up to its break
Put ==
  /\ pc = "put"
  /\ hist' = hist \cup {"put"}
  /\ puts' = puts + 1
  /\ \/ /\ \E cfg \in S3Configs :
             /\ s3Config' = cfg
             /\ s3Url' = PublicUrl(cfg)
        /\ pc' = "pushResult"
        /\ UNCHANGED << lastError, error >>
     \/ /\ \E e \in PutErrors :
             /\ lastError' = e
             /\ IF GivesUp(attempt, maxRetries, e)
                  THEN Raise(UploadError(e))
                  ELSE pc' = "backoff" /\ UNCHANGED error
        /\ UNCHANGED << s3Config, s3Url >>
  /\ UNCHANGED << tmpVars, surfaced, reqVars, ttsVars, batchVars, loopVars, item, pollVars, mediaVars, ppVars,
                  data, attempt, maxRetries, sleeps, delay >>

\* a delay that grows by one unit per attempt
BackoffDelayLinear(n) == (n + 1) * BackoffUnit

\* const delay = Math.pow(2, attempt) * 100
BackoffDelay(n) == 2 ^ n * BackoffUnit

\* await new Promise(resolve => setTimeout(resolve, delay)); attempt++
Backoff ==
  /\ pc = "backoff"
  /\ delay' = BackoffDelay(attempt)
  /\ sleeps' = sleeps + 1
  /\ attempt' = attempt + 1
  /\ pc' = "put"
  /\ UNCHANGED << tmpVars, surfaced, reqVars, ttsVars, batchVars, loopVars, item, error, pollVars, hist, mediaVars,
                  ppVars, data, lastError, maxRetries, puts, s3Config, s3Url >>

\* ---------------------------------------------------------------------
\* an entry paired with the first item whatever the index
ResultEntryFirstItem(idx) == [pairedItem |-> 1, isError |-> FALSE]

\* the entry execute pushes for a finished item
ResultEntry(idx) == [pairedItem |-> idx, isError |-> FALSE]

\* the entry the catch block pushes under continueOnFail
ErrorEntry(idx) == [pairedItem |-> idx, isError |-> TRUE]

\* returnData.push({ json: result, pairedItem: { item: i } })
PushResult ==
  /\ pc = "pushResult"
  /\ returnData' = Append(returnData, ResultEntry(i))
  /\ i' = i + 1
  /\ pc' = "loop"
  /\ ClearLocals
  /\ UNCHANGED << tmpVars, surfaced, batchVars, thrown, error >>

\* a catch block that rethrows whatever continueOnFail says
CatchRethrows ==
  /\ pc = "catch"
  /\ thrown' = Sanitized(error)
  /\ pc' = "rejected"
  /\ error' = NoErr
  /\ ClearLocals
  /\ UNCHANGED << tmpVars, surfaced, batchVars, i, returnData >>

\* a catch block that records the error whatever continueOnFail says
CatchContinues ==
  /\ pc = "catch"
  /\ returnData' = Append(returnData, ErrorEntry(i))
  /\ i' = i + 1
  /\ pc' = "loop"
  /\ surfaced' = SanitizedMessage(error)
  /\ error' = NoErr
  /\ ClearLocals
  /\ UNCHANGED << tmpVars, batchVars, thrown >>

\* catch (error) { ... }
Catch ==
  /\ pc = "catch"
  /\ IF continueOnFail
       THEN /\ returnData' = Append(returnData, ErrorEntry(i))
            /\ i' = i + 1
            /\ pc' = "loop"
            /\ surfaced' = SanitizedMessage(error)
            /\ UNCHANGED thrown
       ELSE /\ thrown' = Sanitized(error)
            /\ pc' = "rejected"
            /\ UNCHANGED << i, returnData, surfaced >>
  /\ error' = NoErr
  /\ ClearLocals
  /\ UNCHANGED << tmpVars, batchVars >>

Next ==
  \/ BeginItem \/ Return \/ CheckFfmpeg \/ ReadParams
  \/ FetchStartFrame \/ FetchEndFrame
  \/ FetchVideoStartFrame \/ FetchVideoEndFrame \/ FetchReferenceImage \/ FetchStyleImage
  \/ GenerateImage
  \/ PickVoice \/ GenerateTTS \/ StreamChunk \/ TtsOutput
  \/ Submit
  \/ PollCheck \/ Sleep \/ Refresh \/ Validate \/ Download
  \/ WriteFile \/ ExecFfmpeg \/ ReadFile
  \/ UnlinkInput \/ UnlinkOutput \/ CatchUnlinkInput \/ CatchUnlinkOutput
  \/ UploadStart \/ Put \/ Backoff
  \/ PushResult \/ Catch

Spec == Init /\ [][Next]_vars

\* ---------------------------------------------------------------------
\* the transforms of several executions of one process, interleaved at
\* their awaits

\* what execute of this model owns
mainVars == << batchVars, loopVars, pc, item, error, pollVars, hist, mediaVars, ppVars,
               upVars, reqVars, ttsVars, surfaced >>

\* the millisecond clock advances
Tick ==
  /\ clock < MaxClock
  /\ clock' = clock + 1
  /\ UNCHANGED << inv, tmpFiles, mainVars >>

\* const tempId = Date.now(), and the two paths made of it
StartTransform(p) ==
  /\ inv[p].pc = "idle"
  /\ \E t \in Transforms :
       inv' = [inv EXCEPT ![p] = [pc |-> "writeFile", transform |-> t,
                                  tempId |-> clock, result |-> 0]]
  /\ UNCHANGED << clock, tmpFiles, mainVars >>

\* await writeFile(inputPath, videoBuffer)
TempWriteFile(p) ==
  /\ inv[p].pc = "writeFile"
  /\ tmpFiles' = [tmpFiles EXCEPT ![TempInputPath(inv[p].transform, inv[p].tempId)] = p]
  /\ inv' = [inv EXCEPT ![p].pc = "ffmpeg"]
  /\ UNCHANGED << clock, mainVars >>

\* await execAsync(ffmpeg -i inputPath ... outputPath): the output is made of
\* whatever the input path holds; ffmpeg fails when there is no such file
TempFfmpeg(p) ==
  /\ inv[p].pc = "ffmpeg"
  /\ LET in == TempInputPath(inv[p].transform, inv[p].tempId)
         out == TempOutputPath(inv[p].transform, inv[p].tempId)
     IN IF tmpFiles[in] = 0
          THEN inv' = [inv EXCEPT ![p].pc = "catch"] /\ UNCHANGED tmpFiles
          ELSE /\ tmpFiles' = [tmpFiles EXCEPT ![out] = tmpFiles[in]]
               /\ inv' = [inv EXCEPT ![p].pc = "readFile"]
  /\ UNCHANGED << clock, mainVars >>

\* await readFile(outputPath)
TempReadFile(p) ==
  /\ inv[p].pc = "readFile"
  /\ LET out == TempOutputPath(inv[p].transform, inv[p].tempId)
     IN IF tmpFiles[out] = 0
          THEN inv' = [inv EXCEPT ![p].pc = "catch"]
          ELSE inv' = [inv EXCEPT ![p].pc = "unlink", ![p].result = tmpFiles[out]]
  /\ UNCHANGED << clock, tmpFiles, mainVars >>

\* try { await unlink(inputPath); await unlink(outputPath) } catch {}: the
\* second unlink is not reached when the first rejects
TempUnlink(p) ==
  /\ inv[p].pc = "unlink"
  /\ LET in == TempInputPath(inv[p].transform, inv[p].tempId)
         out == TempOutputPath(inv[p].transform, inv[p].tempId)
     IN IF tmpFiles[in] = 0
          THEN UNCHANGED tmpFiles
          ELSE tmpFiles' = [tmpFiles EXCEPT ![in] = 0, ![out] = 0]
  /\ inv' = [inv EXCEPT ![p].pc = "return"]
  /\ UNCHANGED << clock, mainVars >>

\* catch: await unlink(inputPath).catch(() => {}); the same for outputPath
TempCatchUnlink(p) ==
  /\ inv[p].pc = "catch"
  /\ tmpFiles' = [tmpFiles EXCEPT ![TempInputPath(inv[p].transform, inv[p].tempId)] = 0,
                                  ![TempOutputPath(inv[p].transform, inv[p].tempId)] = 0]
  /\ inv' = [inv EXCEPT ![p].pc = "return"]
  /\ UNCHANGED << clock, mainVars >>

\* the transform returns or throws: the invocation is over
TempReturn(p) ==
  /\ inv[p].pc = "return"
  /\ inv' = [inv EXCEPT ![p] = Idle]
  /\ UNCHANGED << clock, tmpFiles, mainVars >>

NextTemp ==
  \/ Tick
  \/ \E p \in Invocations :
       \/ StartTransform(p) \/ TempWriteFile(p) \/ TempFfmpeg(p) \/ TempReadFile(p)
       \/ TempUnlink(p) \/ TempCatchUnlink(p) \/ TempReturn(p)

SpecTemp == Init /\ [][NextTemp]_vars

\* ---------------------------------------------------------------------
\* uploadToS3 called on its own, with any maxRetries

\* the maxRetries argument of a direct call
RetryArguments == (0 - 1)..MaxRetriesArg

InitUpload ==
  /\ pc = "callUpload"
  /\ continueOnFail = FALSE /\ nItems = 1 /\ i = 1
  /\ item = NoItem /\ returnData = <<>> /\ thrown = NoErr /\ error = NoErr
  /\ videoOperation = PendingOperation
  /\ now = 0 /\ startTime = 0 /\ refreshLatency = 0
  /\ hist = {}
  /\ videoUri = "" /\ videoBuffer = NoBuffer /\ finalBuffer = NoBuffer
  /\ audioRemovalSuccess = FALSE
  /\ created = {} /\ unlinked = {} /\ stepFailed = "none"
  /\ data = NoBuffer
  /\ attempt = 0 /\ lastError = NoError /\ maxRetries = 0 /\ sleeps = 0
  /\ puts = 0 /\ s3Config = NoS3Config /\ s3Url = <<>>
  /\ params = NoParams /\ payload = NoPayload /\ refQueue = <<>>
  /\ speakerVoices = <<>> /\ usedVoices = {} /\ speakerVoiceConfigs = <<>>
  /\ delay = 0 /\ fetched = <<>>
  /\ stream = <<>> /\ audioChunks = <<>> /\ finalAudio = <<>>
  /\ surfaced = <<>>
  /\ clock = 0 /\ inv = [p \in Invocations |-> Idle] /\ tmpFiles = [f \in TempPaths |-> 0]

\* uploadToS3(executeFunctions, data, mimeType, bucketName, prefix, maxRetries, domain)
CallUpload ==
  /\ pc = "callUpload"
  /\ \E retries \in RetryArguments : UploadBegin(retries)

\* the call and its retry loop; it ends at the return of the URL
\* (pc = "pushResult") or at the throw (pc = "catch")
NextUpload == CallUpload \/ Put \/ Backoff

SpecUpload == InitUpload /\ [][NextUpload]_vars


\* =====================================================================
\* Properties

Elapsed == now - startTime
Polling == pc \in {"pollCheck", "sleep", "refresh"}
TimedOutRaised == pc = "catch" /\ error.msg = "timed out"

\* C1 (as stated): the polling loop is left, by an observed done or by the
\* timeout error, within maxWait + one pollInterval of the reading of
\* startTime; no sleep or refresh of the loop happens beyond that bound.
C1_PollWithinMaxWaitPlusInterval ==
  (Polling \/ TimedOutRaised)
    => Elapsed <= MaxWaitTime(item) + PollingInterval(item)

\* C1 (amended): no sleep starts once more than maxWait has elapsed, so the
\* loop is left within maxWait + one pollInterval + the time the last
\* awaited status refresh took.
C1_PollWithinBoundPlusRefresh ==
  /\ pc = "sleep" => Elapsed <= MaxWaitTime(item)
  /\ pc = "refresh" => Elapsed <= MaxWaitTime(item) + PollingInterval(item)
  /\ (pc = "pollCheck" \/ TimedOutRaised)
       => Elapsed <= MaxWaitTime(item) + PollingInterval(item) + refreshLatency

C1_Witness ==
  /\ TimedOutRaised
  /\ Elapsed = MaxWaitTime(item) + PollingInterval(item) + refreshLatency
  /\ refreshLatency > 0

\* C2 (as stated): a job observed not done at now >= deadline is timed out:
\* no sleep follows such an observation.
C2_NoSleepAtDeadline ==
  pc = "sleep" => now < startTime + MaxWaitTime(item)

\* C2 (amended): a job observed not done at now > deadline is timed out: a
\* sleep or refresh follows an observation only when now <= deadline, the
\* loop is left without an error only when the job is done, and the timeout
\* error is raised only for a job seen not done after the deadline.
C2_NoSleepAfterDeadline ==
  /\ pc = "sleep" => now <= startTime + MaxWaitTime(item)
  /\ pc = "refresh" => now - PollingInterval(item) <= startTime + MaxWaitTime(item)
  /\ pc = "validate" => videoOperation.done
  /\ TimedOutRaised =>
       ~videoOperation.done /\ now > startTime + MaxWaitTime(item)

C2_Witness ==
  TimedOutRaised /\ now > startTime + MaxWaitTime(item) /\ "refresh" \in hist

\* the terminal response has just been checked by Validate
Validated ==
  /\ pc \in {"catch", "download"}
  /\ videoOperation.done
  /\ "download" \notin hist

NoUsableOutput == {"No videos were generated", "Generated video is missing URI"}

\* C3: the failure reported for a terminal response is that of the first
\* failing check in the order: missing response body, error object, filtered
\* count > 0, no usable output.
C3_FirstFailingCheck ==
  Validated =>
    LET r == videoOperation.response IN
      /\ ~videoOperation.hasResponse
           => pc = "catch" /\ error.msg = "No response from API"
      /\ (videoOperation.hasResponse /\ r.error)
           => pc = "catch" /\ error.msg = "provider error"
      /\ (videoOperation.hasResponse /\ ~r.error /\ r.raiMediaFilteredCount > 0)
           => pc = "catch" /\ error.msg = "blocked by safety filters"
      /\ (pc = "catch" /\ error.msg \in NoUsableOutput)
           => videoOperation.hasResponse /\ ~r.error /\ r.raiMediaFilteredCount = 0
      /\ pc = "download"
           => videoOperation.hasResponse /\ ~r.error /\ r.raiMediaFilteredCount = 0

C3_Witness ==
  /\ Validated /\ pc = "catch"
  /\ videoOperation.response.error
  /\ videoOperation.response.raiMediaFilteredCount > 0
  /\ error.msg = "provider error"

\* C4: only the first element of the generated-samples collection is used:
\* a missing, non-array or empty collection, or a first element without URI,
\* fails the item with "no usable output" whatever later elements carry, and
\* the bytes downloaded and uploaded are those of the first element's URI.
C4_FirstSampleOnly ==
  /\ Validated =>
       LET r == videoOperation.response
           gs == GeneratedSamples(r)
           passed == videoOperation.hasResponse /\ ~r.error /\ r.raiMediaFilteredCount = 0
           unusable == \/ gs.kind # "array"
                       \/ Len(gs.samples) = 0
                       \/ gs.samples[1] = NoUri
       IN /\ (passed /\ unusable) => pc = "catch" /\ error.msg \in NoUsableOutput
          /\ pc = "download" =>
               ~unusable /\ videoUri = DecodeURIComponent(gs.samples[1])
  /\ videoBuffer # NoBuffer => videoBuffer.uri = videoUri
  /\ data # NoBuffer => data.uri = videoUri

C4_Witness ==
  /\ Validated /\ pc = "catch"
  /\ GeneratedSamples(videoOperation.response) = Samples(<<NoUri, "v1">>)
  /\ error.msg = "Generated video is missing URI"

C4_WitnessFirstUsed ==
  /\ "put" \in hist
  /\ data.uri = "v/2"

\* C5: the artifact is downloaded only after the job was seen done and its
\* response passed validation, and the upload starts only after the
\* post-processing the mode requires (audio stripping when audio is
\* disabled, live-photo compose) has returned.
C5_DownloadAfterValidationUploadAfterTransform ==
  /\ "download" \in hist => "validated" \in hist
  /\ "validated" \in hist => videoOperation.done /\ "submit" \in hist
  /\ (item.operation \in {"generateVideo", "generateLivePhoto"}
        /\ (pc \in {"put", "backoff", "pushResult"} \/ "put" \in hist)) =>
       /\ "download" \in hist
       /\ (item.operation = "generateLivePhoto" \/ ~item.generateAudio)
            => "postprocess" \in hist

C5_Witness ==
  /\ "put" \in hist /\ "postprocess" \in hist
  /\ item.operation = "generateVideo" /\ ~item.generateAudio

NetworkEvents == {"fetchInput", "submit", "sleep", "refresh", "download", "put"}

\* C6: in live-photo mode the ffmpeg probe is the first action of the item:
\* nothing else (credential read, input fetch, submission, polling,
\* download, upload) happens before the probe has succeeded, and a failed
\* probe fails the item with no network work at all.
C6_ProbeBeforeNetwork ==
  item.operation = "generateLivePhoto" =>
    /\ hist \cap (NetworkEvents \cup {"credentials"}) # {}
         => "ffmpegAvailable" \in hist
    /\ pc \notin {"checkFfmpeg", "catch"} => "ffmpegAvailable" \in hist
    /\ (pc = "catch" /\ "ffmpegAvailable" \notin hist)
         => error.msg = "ffmpeg is required" /\ hist = {"probe"}

C6_Witness ==
  /\ item.operation = "generateLivePhoto"
  /\ "put" \in hist /\ "fetchInput" \in hist /\ "ffmpegAvailable" \in hist

C6_WitnessProbeFailed ==
  /\ item.operation = "generateLivePhoto"
  /\ pc = "catch" /\ error.msg = "ffmpeg is required"

\* C7: when a transform (removeAudioFromVideo, createLivePhotoVideo) is
\* left, on whatever path, an unlink has been attempted for every temp file
\* the invocation created.
C7_UnlinkAttemptedForEveryTempFile ==
  pc \in {"upload", "catch"} => created \subseteq unlinked

\* C8: audio stripping never fails the item: a failing step of
\* removeAudioFromVideo leads to the return of the original bytes with
\* audioRemoved = false, those bytes are what is uploaded, and
\* audioRemoved = true comes only with the tool's output bytes.
C8_StripFailureKeepsOriginal ==
  item.operation = "generateVideo" =>
    /\ stepFailed # "none" => pc \in {"catchUnlinkInput", "catchUnlinkOutput", "upload"}
    /\ (pc = "upload" /\ stepFailed # "none")
         => finalBuffer = videoBuffer /\ ~audioRemovalSuccess
    /\ audioRemovalSuccess
         => /\ finalBuffer = [kind |-> "noaudio", uri |-> videoBuffer.uri]
            /\ stepFailed = "none"
    /\ data # NoBuffer
         => data = finalBuffer /\ (~audioRemovalSuccess => data = videoBuffer)

C8_Witness ==
  /\ item.operation = "generateVideo" /\ ~item.generateAudio
  /\ "postprocess" \in hist /\ "put" \in hist
  /\ ~audioRemovalSuccess /\ data = videoBuffer

\* C9: the live-photo transform has no fallback: when a step of
\* createLivePhotoVideo fails the item fails with its error, no put is made
\* for the item, and only composed bytes are ever handed to the upload.
C9_LivePhotoFailureFailsItem ==
  item.operation = "generateLivePhoto" =>
    /\ stepFailed # "none"
         => /\ pc \in {"catchUnlinkInput", "catchUnlinkOutput", "catch"}
            /\ "put" \notin hist /\ data = NoBuffer /\ finalBuffer = NoBuffer
    /\ (pc = "catch" /\ stepFailed # "none")
         => error.msg = "Failed to create live photo video"
    /\ data # NoBuffer => data = [kind |-> "livephoto", uri |-> videoBuffer.uri]

C9_Witness ==
  /\ item.operation = "generateLivePhoto"
  /\ pc = "catch" /\ stepFailed = "ffmpeg"
  /\ error.msg = "Failed to create live photo video"

\* a failure the claim calls transient
Transient(e) == e.code \in {"ENOTFOUND", "EAI_AGAIN"} \/ e.name = "TimeoutError"

\* C10: uploadToS3 sleeps and puts again only after a transient failure
\* (code ENOTFOUND or EAI_AGAIN, or name TimeoutError); after any other
\* failure neither a backoff nor another put follows and the upload error
\* is raised.
C10_RetryOnlyTransient ==
  /\ pc = "backoff" => Transient(lastError)
  /\ (pc = "put" /\ attempt > 1) => Transient(lastError)
  /\ (lastError # NoError /\ ~Transient(lastError))
       => /\ pc = "catch"
          /\ error.msg = "Failed to upload to S3"
          /\ sleeps = attempt - 1

C10_Witness ==
  /\ pc = "catch" /\ lastError.code = "ECONNRESET"
  /\ attempt = 2 /\ sleeps = 1

UploadFailed == pc = "catch" /\ error.msg = "Failed to upload to S3"
UploadReturned == pc = "pushResult" /\ "put" \in hist
Min(a, b) == IF a <= b THEN a ELSE b

\* C11 (as stated): with retries counted as the put attempts made after the
\* first one, an upload that succeeds at its n-th put has retried
\* min(n, maxRetries) times, and one that meets only transient failures has
\* retried maxRetries times.
C11_RetriesMinNeededMax ==
  /\ UploadReturned => puts - 1 = Min(puts, maxRetries)
  /\ (UploadFailed /\ Transient(lastError)) => puts - 1 = maxRetries

\* C11 (amended): uploadToS3 makes exactly min(attempts_needed, maxRetries)
\* put attempts, one fewer retries: an upload that succeeds does so at put
\* number attempts_needed <= maxRetries, an upload that meets only transient
\* failures stops after maxRetries puts, and a non-transient failure is
\* followed by no further put.
C11_PutsMinNeededMax ==
  /\ (pc \in {"put", "backoff"} \/ UploadReturned) =>
       /\ puts <= maxRetries
       /\ (lastError # NoError => Transient(lastError))
  /\ UploadReturned => puts = Min(attempt, maxRetries) /\ sleeps = puts - 1
  /\ (UploadFailed /\ Transient(lastError))
       => puts = maxRetries /\ sleeps = maxRetries - 1
  /\ (UploadFailed /\ ~Transient(lastError))
       => puts = attempt /\ sleeps = puts - 1

C11_Witness == UploadReturned /\ puts = 3 /\ sleeps = 2

C11_WitnessExhausted ==
  UploadFailed /\ Transient(lastError) /\ puts = UploadMaxRetries

\* C12: one uploadToS3 call makes at most maxRetries put attempts, and the
\* error it raises when it gives up names the failure of the last put made.
C12_AtMostMaxRetriesPutsLastErrorNamed ==
  /\ puts <= maxRetries
  /\ pc = "backoff" => puts < maxRetries
  /\ UploadFailed =>
       /\ puts >= 1
       /\ lastError \in PutErrors
       /\ error.cause = (IF lastError.code # Absent THEN lastError.code ELSE lastError.name)

C12_Witness ==
  /\ UploadFailed /\ puts = UploadMaxRetries
  /\ lastError.name = "TimeoutError" /\ error.cause = "TimeoutError"

\* a string without its one trailing slash
Chop(s) == IF s # <<>> /\ s[Len(s)] = "/" THEN [k \in 1..(Len(s) - 1) |-> s[k]] ELSE s

\* C13: the returned URL follows the precedence: a non-blank public domain d
\* gives d/key whatever the endpoint and path-style settings are; otherwise
\* an endpoint with path-style gives endpoint/bucket/key; otherwise an
\* endpoint gives scheme://bucket.endpointHost/key; otherwise
\* https://bucket.s3.region.amazonaws.com/key (d and endpoint taken without
\* a trailing slash).
C13_UrlPrecedence ==
  UploadReturned =>
    LET d == s3Config.publicDomain
        ep == Chop(s3Config.endpoint)
        hasDomain == \E k \in 1..Len(d) : d[k] # " "
    IN /\ hasDomain => s3Url = Chop(d) \o << "/", "key" >>
       /\ (~hasDomain /\ ep # <<>> /\ s3Config.forcePathStyle)
            => s3Url = ep \o << "/", "bucket", "/", "key" >>
       /\ (~hasDomain /\ ep # <<>> /\ ~s3Config.forcePathStyle)
            => s3Url = << ep[1], "://", "bucket", ".", ep[3], "/", "key" >>
       /\ (~hasDomain /\ ep = <<>>)
            => \E region \in {"us-east-1", "eu-west-1"} :
                 /\ s3Config.region # "" => region = s3Config.region
                 /\ s3Url = << "https", "://", "bucket", ".", "s3", ".", region,
                              ".", "amazonaws.com", "/", "key" >>

C13_Witness ==
  /\ UploadReturned
  /\ s3Config.publicDomain = << "https", "://", "cdn.example", "/" >>
  /\ s3Config.endpoint # <<>> /\ s3Config.forcePathStyle
  /\ s3Url = << "https", "://", "cdn.example", "/", "key" >>

\* a generateVideo item whose parameters have been read
VideoRequested == params.generationMode # "none"

\* the provider call is reached, or was made, with the payload
Submitting == pc = "submit" \/ "submit" \in hist

AllowedDuration(resolution, duration) ==
  \/ resolution = "720p" /\ duration \in {4, 6, 8}
  \/ resolution = "1080p" /\ duration = 8

\* C14: a video request is accepted only for 720p with 4, 6 or 8 seconds
\* and 1080p with 8 seconds; any other combination fails the item and no
\* job is submitted for it.
C14_UnsupportedDurationRejected ==
  (VideoRequested /\ ~AllowedDuration(params.resolution, params.durationSeconds))
    => pc = "catch" /\ "submit" \notin hist

\* an input-video reference the claim accepts: a URL containing the
\* provider host, files/<id>, or a bare id
AcceptedReference(t) ==
  \/ \E k \in 1..Len(t) : t[k] = "generativelanguage.googleapis.com"
  \/ Len(t) = 3 /\ t[1] = "files" /\ t[2] = "/" /\ t[3] \in IdPieces
  \/ Len(t) = 1 /\ t[1] \in IdPieces

\* C15: in extend-video mode the input-video reference is accepted exactly
\* when, trimmed, it is a URL containing the provider host, has the form
\* files/<id>, or is a bare id; a bare id is sent as files/<id>, the other
\* forms unchanged; anything else fails the item and no job is submitted.
C15_InputVideoReferenceAccepted ==
  (VideoRequested /\ params.generationMode = "extendVideo") =>
    LET t == TrimPieces(params.inputVideoUri) IN
      /\ AcceptedReference(t) <=> pc = "submit" \/ "submit" \in hist
      /\ (AcceptedReference(t) /\ Len(t) = 1) => payload.video = << "files", "/", t[1] >>
      /\ (AcceptedReference(t) /\ Len(t) > 1) => payload.video = t
      /\ ~AcceptedReference(t) => pc = "catch" /\ "submit" \notin hist

\* the required field of the mode is missing or blank, or the mode is unknown
MissingField ==
  CASE params.generationMode = "textToVideo" -> params.videoPrompt \in {"", " "}
    [] params.generationMode = "framesToVideo" -> params.startFrameUrl \in {"", " "}
    [] params.generationMode = "referencesToVideo" -> params.referenceImages = <<>>
    [] params.generationMode = "extendVideo" ->
         \A k \in 1..Len(params.inputVideoUri) : params.inputVideoUri[k] = " "
    [] OTHER -> TRUE

FieldError ==
  CASE params.generationMode = "textToVideo" -> "Video prompt is required"
    [] params.generationMode = "framesToVideo" -> "Start frame URL is required"
    [] params.generationMode = "referencesToVideo" ->
         "At least one reference image is required"
    [] params.generationMode = "extendVideo" -> "Input video URI is required"
    [] OTHER -> "Unknown generation mode"

\* C16: when the required field of the video mode is missing or blank, or
\* the mode is unknown, the item fails with the validation error naming
\* the field, and no input reference is fetched and no job submitted for it.
C16_MissingFieldFailsBeforeFetch ==
  (VideoRequested /\ MissingField) =>
    /\ pc = "catch"
    /\ error.msg = FieldError
    /\ hist \cap {"fetchInput", "submit"} = {}
    /\ payload.image = "" /\ payload.referenceImages = <<>>

C16_Witness ==
  /\ pc = "catch" /\ params.generationMode = "framesToVideo"
  /\ params.startFrameUrl = " "
  /\ error.msg = "Start frame URL is required"

\* C17: in references-to-video mode every submitted payload carries at
\* least one reference image in config.referenceImages.
C17_SubmittedWithReferenceImage ==
  (params.generationMode = "referencesToVideo" /\ Submitting)
    => Len(payload.referenceImages) >= 1

RandomPool(voiceName) ==
  CASE voiceName = "__random__" -> Range(allVoices)
    [] voiceName = "__random_male__" -> Range(maleVoices)
    [] voiceName = "__random_female__" -> Range(femaleVoices)
    [] OTHER -> {}

Randomized == { "__random__", "__random_male__", "__random_female__" }

\* C18: in multi-speaker assignment a randomized pick never returns a voice
\* already assigned to an earlier speaker while its pool still holds an
\* unused voice; N speakers, N at most the pool size, all asking for a
\* random voice of one category get pairwise distinct voices.
C18_RandomPickAvoidsUsedVoices ==
  LET assigned == speakerVoiceConfigs
      Earlier(k) == { assigned[j] : j \in 1..(k - 1) }
  IN speakerVoices # <<>> =>
     /\ \A k \in 1..Len(assigned) :
          (speakerVoices[k] \in Randomized
             /\ RandomPool(speakerVoices[k]) \ Earlier(k) # {})
            => assigned[k] \in RandomPool(speakerVoices[k]) \ Earlier(k)
     /\ \A c \in Randomized :
          ((\A k \in 1..Len(speakerVoices) : speakerVoices[k] = c)
             /\ Len(speakerVoices) <= Cardinality(RandomPool(c)))
            => \A j, k \in 1..Len(assigned) : j # k => assigned[j] # assigned[k]

C18_Witness ==
  /\ pc = "generateTTS"
  /\ speakerVoices = << "__random__", "__random__" >>
  /\ Len(speakerVoiceConfigs) = 2

C18_WitnessAfterNamedVoice ==
  /\ pc = "generateTTS"
  /\ speakerVoices = << "Puck", "__random__" >>
  /\ speakerVoiceConfigs = << "Puck", "Zephyr" >>

\* C19: under continueOnFail an item that fails at any stage is recorded as
\* an error entry paired with it, the entries of earlier items are kept,
\* and the loop goes on: execute never rejects and returns one entry per
\* item of the batch.
C19_ContinueOnFailRecordsAndGoesOn ==
  /\ [](continueOnFail =>
          /\ pc # "rejected" /\ thrown.msg = "none"
          /\ Len(returnData) = i - 1
          /\ \A k \in 1..Len(returnData) : returnData[k].pairedItem = k
          /\ pc = "returned" => Len(returnData) = nItems)
  /\ [][(continueOnFail /\ pc = "catch") =>
          /\ returnData' = returnData \o << [pairedItem |-> i, isError |-> TRUE] >>
          /\ i' = i + 1
          /\ pc' = "loop"]_vars
  /\ [][continueOnFail =>
          /\ Len(returnData') >= Len(returnData)
          /\ SubSeq(returnData', 1, Len(returnData)) = returnData]_vars

C19_Witness ==
  /\ continueOnFail /\ pc = "returned" /\ nItems = 2
  /\ returnData[1].isError /\ ~returnData[2].isError

\* C20: without continueOnFail the first failing item aborts the batch:
\* execute rejects with the error instead of returning, no error entry is
\* ever recorded, and after the rejection nothing more happens (no
\* operation of a later item is started).
C20_FailFastAborts ==
  /\ [](~continueOnFail =>
          /\ \A k \in 1..Len(returnData) : ~returnData[k].isError
          /\ pc = "rejected" =>
               /\ thrown.msg # "none" /\ i <= nItems
               /\ Len(returnData) = i - 1
               /\ hist = {} /\ item.operation = "none")
  /\ [][(~continueOnFail /\ pc = "catch") =>
          /\ pc' = "rejected"
          /\ thrown'.msg = error.msg
          /\ returnData' = returnData /\ i' = i]_vars
  /\ [][pc # "rejected"]_vars

C20_Witness ==
  /\ ~continueOnFail /\ pc = "rejected"
  /\ i = 1 /\ nItems = 2 /\ thrown.msg = "timed out"

\* ---------------------------------------------------------------------
\* the characters U+0000-U+001F and U+007F-U+009F among the pieces used
ControlCharacters == { "\n", "\t", "U+001B", "U+007F", "U+0085" }

NoControlCharacter(message) ==
  \A k \in 1..Len(message) : message[k] \notin ControlCharacters

\* C21: the message of every error surfaced to the caller, in the error
\* entry of a continue-on-failure batch or in the error execute rejects
\* with, contains no control character (U+0000-U+001F, U+007F-U+009F).
C21_SurfacedMessageHasNoControlCharacter ==
  /\ NoControlCharacter(surfaced)
  /\ NoControlCharacter(thrown.detail)

C21_Witness ==
  /\ continueOnFail /\ pc = "loop" /\ Len(returnData) = 1 /\ returnData[1].isError
  /\ surfaced = << "bad", "request" >>

\* the message is the texts of the list, one after the other in this order,
\* each in one piece, from position from on
InOrder(message, list, from) ==
  LET RECURSIVE F(_, _)
      F(k, at) ==
        IF k > Len(list) THEN TRUE
        ELSE \E b \in at..(Len(message) - Len(list[k]) + 1) :
               /\ SubSeq(message, b, b + Len(list[k]) - 1) = list[k]
               /\ F(k + 1, b + Len(list[k]))
  IN F(1, from)

\* the message the caller gets for the error the catch block holds
SurfacedNext == IF continueOnFail THEN surfaced' ELSE thrown'.detail

SafetyRejection == pc = "catch" /\ error.msg = "blocked by safety filters"

WithoutControlCharacters(text) ==
  SelectSeq(text, LAMBDA c : c \notin ControlCharacters)

\* the texts of the list with "; " between them
JoinedBySemicolon(list) ==
  LET RECURSIVE J(_)
      J(k) == IF k = 0 THEN <<>>
              ELSE IF k = 1 THEN list[1]
              ELSE J(k - 1) \o << "; " >> \o list[k]
  IN J(Len(list))

\* C22 (as stated): the error surfaced for a safety-filter rejection carries
\* every reason of the provider verbatim: each reason appears in the message
\* unchanged, in the provider's order.
C22_ReasonsVerbatim ==
  [][SafetyRejection =>
       InOrder(SurfacedNext, videoOperation.response.raiMediaFilteredReasons, 1)]_vars

\* C22 (amended): the surfaced message carries the reasons in the provider's
\* order, joined by "; ", each unchanged but for the control characters the
\* sanitizer removes from the whole message.
C22_ReasonsInOrderSanitized ==
  [][SafetyRejection =>
       LET reasons == videoOperation.response.raiMediaFilteredReasons
           clean == [k \in 1..Len(reasons) |-> WithoutControlCharacters(reasons[k])]
           joined == JoinedBySemicolon(clean)
       IN \E b \in 1..Len(SurfacedNext) :
            /\ SurfacedNext[b] = "Reasons: "
            /\ SubSeq(SurfacedNext, b + 1, b + Len(joined)) = joined]_vars

C22_Witness ==
  /\ continueOnFail /\ pc = "loop" /\ Len(returnData) = 1 /\ returnData[1].isError
  /\ surfaced = << "blocked by safety filters", "Reasons: ", "violence", "; ",
                   "hate", "speech",
                   "Please try modifying your prompt or using different images." >>

\* C23 (as stated): the time value a TimeoutError carries equals the time
\* elapsed between the submission and the detection of the timeout.
C23_TimeoutReportsElapsed ==
  TimedOutRaised => error.minutes * SecondsPerMinute = Elapsed

\* C23 (amended): the time value a TimeoutError carries is the configured
\* maximum wait in minutes (30 when none is configured), and the time
\* elapsed since the submission when the timeout is detected is strictly
\* more than it.
C23_TimeoutReportsConfiguredWait ==
  TimedOutRaised =>
    /\ error.minutes = IF item.additionalOptions.maxWaitTime = 0
                         THEN 30 ELSE item.additionalOptions.maxWaitTime
    /\ Elapsed > error.minutes * SecondsPerMinute

C23_Witness ==
  /\ TimedOutRaised /\ item.additionalOptions.maxWaitTime = 1
  /\ error.minutes = 1 /\ Elapsed = 90

\* the converted chunks of the fragments that carry audio, in arrival order
ExpectedAudio(fragments) ==
  LET RECURSIVE E(_)
      E(k) == IF k = 0 THEN <<>>
              ELSE IF fragments[k].inlineData
                THEN E(k - 1) \o ConvertToWav(fragments[k].data, fragments[k].mimeType)
                ELSE E(k - 1)
  IN E(Len(fragments))

\* C24: in speech mode the final audio buffer is the concatenation, in
\* arrival order, of the converted chunks of exactly the stream fragments
\* that carry audio data; a stream without any yields an empty buffer, and
\* the item still completes with an upload or a binary result, without error.
C24_AudioIsConcatenationInArrivalOrder ==
  /\ [](pc = "ttsOutput" =>
          /\ finalAudio = ExpectedAudio(stream)
          /\ (\A k \in 1..Len(stream) : ~stream[k].inlineData) => finalAudio = <<>>
          /\ error = NoErr)
  /\ [][pc = "ttsOutput" =>
          /\ pc' \in {"upload", "pushResult"}
          /\ error' = NoErr /\ finalBuffer' = FinalAudio]_vars

C24_Witness ==
  /\ pc = "ttsOutput" /\ Len(stream) = 2
  /\ ~stream[1].inlineData /\ stream[2].data = "b"
  /\ finalAudio = << "wav audio/L16;rate=24000", "b" >>

\* the ways the polling loop is left
ObservedDone == pc' = "validate" /\ videoOperation.done
DeadlinePassed == pc' = "catch" /\ error'.msg = "timed out" /\ ~videoOperation.done
RefreshFailed == pc' = "catch" /\ error'.msg = "getVideosOperation failed"

\* C25: a job leaves the polling loop once, into exactly one terminal
\* outcome (observed done, failed, timed out), and is not polled again
\* afterwards; the deadline, startTime + maxWait, is fixed at submission and
\* no sleep or refresh changes it.
C25_LeavesPollingOnceDeadlineFixed ==
  /\ [][(Polling /\ Polling') =>
          startTime' + MaxWaitTime(item') = startTime + MaxWaitTime(item)]_vars
  /\ [][(Polling /\ ~Polling') =>
          /\ ObservedDone \/ DeadlinePassed \/ RefreshFailed
          /\ ~(ObservedDone /\ DeadlinePassed)
          /\ ~(ObservedDone /\ RefreshFailed)
          /\ ~(DeadlinePassed /\ RefreshFailed)]_vars
  /\ [][(~Polling /\ "submit" \in hist) => ~Polling']_vars

C25_Witness ==
  /\ TimedOutRaised /\ "sleep" \in hist
  /\ item.additionalOptions.pollingInterval = 45 /\ Elapsed = 135

\* C27: for one job submission no input reference URL is fetched more than
\* once, also when looping makes the start frame the end frame too.
C27_EachReferenceFetchedOnce ==
  \A j, k \in 1..Len(fetched) : j # k => fetched[j] # fetched[k]

\* 2^n, by doubling
Doubled(n) ==
  LET RECURSIVE D(_)
      D(k) == IF k = 0 THEN 1 ELSE 2 * D(k - 1)
  IN D(n)

\* C28: the delay slept after the n-th failed put of an upload is
\* 2^n * 100 ms (200, 400, 800, ...), whatever the error and maxRetries.
C28_BackoffDelayDoubles ==
  /\ sleeps >= 1 => delay = Doubled(sleeps) * 100
  /\ sleeps = 1 => delay = 200
  /\ sleeps = 2 => delay = 400
  /\ sleeps = 3 => delay = 800
  /\ pc = "put" => sleeps = puts

C28_Witness ==
  /\ pc = "put" /\ puts = 4 /\ sleeps = 4 /\ delay = 1600

\* C29: when every voice of the requested category is already assigned in
\* the request, a randomized pick still succeeds and returns a voice of that
\* category's full pool; a randomized pick repeats a voice only in that case.
C29_ExhaustedPoolFallsBackToCategory ==
  LET assigned == speakerVoiceConfigs
      Earlier(k) == { assigned[j] : j \in 1..(k - 1) }
      next == Len(assigned) + 1
  IN speakerVoices # <<>> =>
     /\ \A k \in 1..Len(assigned) :
          speakerVoices[k] \in Randomized =>
            /\ assigned[k] \in RandomPool(speakerVoices[k])
            /\ assigned[k] \in Earlier(k) => RandomPool(speakerVoices[k]) \subseteq Earlier(k)
     /\ (pc = "pickVoice" /\ speakerVoices[next] \in Randomized
           /\ RandomPool(speakerVoices[next]) \subseteq Earlier(next)) =>
          /\ SpeakerVoice(speakerVoices[next], usedVoices) = RandomPool(speakerVoices[next])
          /\ error = NoErr

C29_Witness ==
  /\ speakerVoices = << "__random_male__", "__random_male__" >>
  /\ speakerVoiceConfigs = << "Puck", "Puck" >>

\* C30: the used-voices set belongs to one request: it is empty when the
\* first speaker of an item is given a voice and holds exactly the voices
\* given to the earlier speakers of that item afterwards, so no voice given
\* in another item of the batch restricts a pick.
C30_UsedVoicesScopedToRequest ==
  /\ [](pc = "pickVoice" => usedVoices = Range(speakerVoiceConfigs))
  /\ [][(pc = "readParams" /\ pc' = "pickVoice") => usedVoices' = {}]_vars
  /\ [][(pc = "pickVoice" /\ speakerVoices[Len(speakerVoiceConfigs) + 1] \in Randomized) =>
          LET k == Len(speakerVoiceConfigs) + 1
              pool == RandomPool(speakerVoices[k])
              free == pool \ Range(speakerVoiceConfigs)
          IN speakerVoiceConfigs'[k] \in (IF free = {} THEN pool ELSE free)]_vars

C30_Witness ==
  /\ i = 2 /\ Len(returnData) = 1 /\ ~returnData[1].isError
  /\ pc = "pickVoice" /\ usedVoices = {"Puck"}
  /\ speakerVoices = << "Puck", "__random__" >>

\* C26: the temp files of a transform invocation are its own: two
\* invocations alive at once, also when started at the same clock reading,
\* name disjoint temp paths, so neither reads what the other wrote.
C26_DisjointTempPaths ==
  \A p, q \in Invocations :
    (p # q /\ inv[p].pc # "idle" /\ inv[q].pc # "idle") =>
      /\ { TempInputPath(inv[p].transform, inv[p].tempId),
           TempOutputPath(inv[p].transform, inv[p].tempId) }
         \cap { TempInputPath(inv[q].transform, inv[q].tempId),
                TempOutputPath(inv[q].transform, inv[q].tempId) } = {}
      /\ inv[p].result \in {0, p}

\* ---------------------------------------------------------------------
\* a terminal response that passed the checks made before the samples
PassedEarlierChecks ==
  /\ Validated /\ videoOperation.hasResponse
  /\ ~videoOperation.response.error
  /\ videoOperation.response.raiMediaFilteredCount = 0

\* the collection has a first sample with a URI
Usable(shape) ==
  shape.kind = "array" /\ shape.samples # <<>> /\ shape.samples[1] # NoUri

\* the URI with its percent escape resolved
Decoded(uri) == IF uri = "v%2F2" THEN "v/2" ELSE uri

\* C31: of the two shapes of a terminal response the validator takes
\* generatedVideos whenever it is present, also when it is an empty
\* collection, and generateVideoResponse.generatedSamples only when
\* generatedVideos is absent.
C31_FirstShapePreferred ==
  PassedEarlierChecks =>
    LET first == videoOperation.response.generatedVideos
        second == videoOperation.response.generatedSamples
    IN /\ (first.kind # "absent" /\ ~Usable(first))
            => pc = "catch" /\ error.msg \in NoUsableOutput
       /\ (first.kind # "absent" /\ pc = "download")
            => Usable(first) /\ videoUri = Decoded(first.samples[1])
       /\ (first.kind = "absent" /\ pc = "download")
            => Usable(second) /\ videoUri = Decoded(second.samples[1])
       /\ (first.kind = "absent" /\ ~Usable(second))
            => pc = "catch" /\ error.msg \in NoUsableOutput

C31_Witness ==
  /\ PassedEarlierChecks /\ pc = "catch"
  /\ videoOperation.response.generatedVideos = Samples(<<>>)
  /\ videoOperation.response.generatedSamples = Samples(<< "v1" >>)
  /\ error.msg = "No videos were generated"

\* C32: the loop looks at done before it looks at the deadline: a job the
\* last refresh reported done goes on to validation also when the deadline
\* has passed by then, and the timeout error is raised only right after the
\* job was seen not done.
C32_DoneCheckedBeforeDeadline ==
  /\ [][(pc = "pollCheck" /\ videoOperation.done) =>
          pc' = "validate" /\ error' = NoErr]_vars
  /\ [][(pc' = "catch" /\ error'.msg = "timed out") =>
          /\ pc = "pollCheck" /\ ~videoOperation.done
          /\ Elapsed > MaxWaitTime(item)]_vars

C32_Witness ==
  /\ pc = "pollCheck" /\ videoOperation.done /\ "refresh" \in hist
  /\ item.additionalOptions.maxWaitTime = 1 /\ Elapsed = 90

\* C33: under continueOnFail execute returns one entry per input item, in
\* input order: the i-th entry is paired with item i and is the result of
\* that item or its error entry (every item selects one of the four
\* operations of the node).
C33_OneEntryPerItemInOrder ==
  /\ []((continueOnFail /\ pc = "returned") =>
          /\ Len(returnData) = nItems
          /\ \A k \in 1..nItems : returnData[k].pairedItem = k)
  /\ [][(continueOnFail /\ i' # i) =>
          /\ i' = i + 1 /\ i <= nItems
          /\ pc \in {"pushResult", "catch"}
          /\ returnData' = Append(returnData, [pairedItem |-> i, isError |-> (pc = "catch")])]_vars
  /\ [][(continueOnFail /\ i' = i) => returnData' = returnData]_vars

C33_Witness ==
  /\ continueOnFail /\ pc = "returned" /\ nItems = 2
  /\ ~returnData[1].isError /\ returnData[2].isError
  /\ returnData[1].pairedItem = 1 /\ returnData[2].pairedItem = 2

\* the direct call has returned or thrown
CallEnded == pc \in {"pushResult", "catch"}

\* C34 (as stated): uploadToS3 sleeps once between two consecutive puts and
\* never after the last one, so the backoff sleeps of a call are its put
\* attempts minus one.
C34_SleepsArePutsMinusOne ==
  CallEnded => sleeps = puts - 1

\* C34 (amended): uploadToS3 sleeps once between two consecutive puts and
\* never after the last one: a sleep follows only a transient failure of a
\* put that is not the maxRetries-th, and a put follows every sleep; a call
\* that makes at least one put sleeps that number minus one times, and a
\* call that makes none (maxRetries <= 0, or no credentials) never sleeps.
C34_SleepsBetweenPutsOnly ==
  /\ [](/\ pc = "backoff" =>
             Transient(lastError) /\ puts < maxRetries /\ sleeps = puts - 1
        /\ pc = "put" => sleeps = puts
        /\ (CallEnded /\ puts >= 1) => sleeps = puts - 1
        /\ (CallEnded /\ puts = 0) => sleeps = 0)
  /\ [][sleeps' # sleeps =>
          /\ pc = "backoff" /\ pc' = "put"
          /\ sleeps' = sleeps + 1 /\ puts' = puts]_vars

C34_Witness ==
  /\ pc = "catch" /\ maxRetries = 3 /\ puts = 3 /\ sleeps = 2
  /\ Transient(lastError)

\* C35: called with maxRetries <= 0, uploadToS3 makes no put and raises the
\* upload error (the credentials being there); it returns a URL only from a
\* put that succeeded.
C35_NoPutWithoutRetriesUrlOnlyAfterPut ==
  /\ []((pc # "callUpload" /\ maxRetries <= 0) =>
          /\ puts = 0 /\ pc = "catch" /\ s3Url = <<>>
          /\ error.msg \in {"Failed to upload to S3", "S3 credentials are required"})
  /\ [](pc = "pushResult" => puts >= 1 /\ s3Url # <<>>)
  /\ [](s3Url # <<>> => pc = "pushResult" /\ puts >= 1)
  /\ [][pc' = "pushResult" =>
          pc = "put" /\ puts' = puts + 1 /\ error' = NoErr]_vars
  /\ [][(pc = "callUpload" /\ error'.msg = "Failed to upload to S3") =>
          maxRetries' <= 0]_vars

C35_Witness ==
  /\ pc = "catch" /\ maxRetries = 0 /\ puts = 0
  /\ error.msg = "Failed to upload to S3" /\ "put" \notin hist

\* the steps of a running transform
InTransform ==
  pc \in {"writeFile", "execFfmpeg", "readFile", "unlinkInput", "unlinkOutput",
          "catchUnlinkInput", "catchUnlinkOutput"}

UploadBegun == pc \in {"put", "backoff"} \/ "put" \in hist

\* C36: for a video item removeAudioFromVideo is called once when
\* generateAudio is off and never when it is on, after the download and
\* before the upload; with generateAudio on the bytes uploaded are the bytes
\* downloaded.
C36_StripOnceWhenAudioDisabled ==
  /\ [](item.operation = "generateVideo" =>
          /\ item.generateAudio =>
               /\ ~InTransform /\ "postprocess" \notin hist /\ ~audioRemovalSuccess
               /\ data # NoBuffer => data = [kind |-> "video", uri |-> videoUri]
          /\ (~item.generateAudio /\ (pc = "upload" \/ UploadBegun)) => "postprocess" \in hist
          /\ InTransform => "download" \in hist /\ "postprocess" \notin hist /\ ~UploadBegun
          /\ pc = "download" => "download" \notin hist)
  /\ [][(item.operation = "generateVideo" /\ pc' = "writeFile") =>
          pc = "download" /\ ~item.generateAudio]_vars
  /\ [][(item.operation = "generateVideo" /\ "postprocess" \in hist) =>
          ~InTransform']_vars

C36_Witness ==
  /\ item.operation = "generateVideo" /\ item.generateAudio
  /\ pc = "pushResult" /\ "put" \in hist /\ "postprocess" \notin hist
  /\ data = [kind |-> "video", uri |-> "v/2"]

====
